---- MODULE Spec2Model ----
(***************************************************************************)
(* Formalization task engine of the PNAE backend: the task synchronization *)
(* repository, the formalization service that orchestrates it, and the     *)
(* chat assistant layered on the task list.  The document store is a set   *)
(* of collections.  A handler is a coroutine that yields at every await on *)
(* the store: each action below is one round trip of one coroutine, and    *)
(* the values a coroutine holds between two round trips are its locals.    *)
(***************************************************************************)
EXTENDS Integers, Sequences, FiniteSets, TLC

VARIABLES
    tasks,      \* formalization_tasks_user rows of the user, in created_at order; _id = index
    profile,    \* producer_profiles document of the user (<<>> when there is none)
    answers,    \* onboarding_answers of the user: question_id -> answer
    cache,      \* formalization_status document of the user (<<>> when there is none)
    convs,      \* chat_conversations collection, in insertion order; _id = index
    now,        \* the value utc_now() returns
    resp,       \* the last completed call: its arguments, what it read, its result
    procs       \* the coroutines: locals and position of each call in flight

vars == <<tasks, profile, answers, cache, convs, now, resp, procs>>

-----------------------------------------------------------------------------
(* Bounds *)

MaxTime == 1
MaxRequiredLen == 2
MaxConversations == 2
MaxWalkLen == 4

-----------------------------------------------------------------------------
(* Documents: a document is a function from its field names to values.     *)

NoneVal == "None"
NoDoc == <<>>

\* $set of an update: the fields of upd overwrite or extend the document
SetFields(doc, upd) ==
    [f \in (DOMAIN doc) \cup (DOMAIN upd) |-> IF f \in DOMAIN upd THEN upd[f] ELSE doc[f]]

\* dict.get(key, default)
Get(doc, key, default) == IF key \in DOMAIN doc THEN doc[key] ELSE default

Range(s) == {s[i] : i \in DOMAIN s}

Statuses == {"pending", "done", "skipped"}

\* Variant of min that returns its second argument: the score is not capped
Min_uncapped(a, b) == b

Min(a, b) == IF a < b THEN a ELSE b
Max(a, b) == IF a > b THEN a ELSE b

-----------------------------------------------------------------------------
(* Text: a str value is the sequence of its characters.  The characters are *)
(* those of Alphabet: the whitespace characters below U+0100, printable     *)
(* ASCII without the grave accent, and Latin-1 from the no-break space on   *)
(* without the micro sign and y with diaeresis, whose capitals lie outside  *)
(* Latin-1.  The str methods are defined on them and on no other character. *)

Alphabet ==
    {"\t", "\n", "", "\f", "\r", "", "", "", "", " ", "!", "\"", "#", "$", "%", "&", "'",
     "(", ")", "*", "+", ",", "-", ".", "/", "0", "1", "2", "3", "4", "5", "6", "7", "8", "9",
     ":", ";", "<", "=", ">", "?", "@", "A", "B", "C", "D", "E", "F", "G", "H", "I", "J", "K",
     "L", "M", "N", "O", "P", "Q", "R", "S", "T", "U", "V", "W", "X", "Y", "Z", "[", "\\", "]",
     "^", "_", "a", "b", "c", "d", "e", "f", "g", "h", "i", "j", "k", "l", "m", "n", "o", "p",
     "q", "r", "s", "t", "u", "v", "w", "x", "y", "z", "{", "|", "}", "~", "", " ", "¡", "¢",
     "£", "¤", "¥", "¦", "§", "¨", "©", "ª", "«", "¬", "­", "®", "¯", "°", "±", "²", "³", "´",
     "¶", "·", "¸", "¹", "º", "»", "¼", "½", "¾", "¿", "À", "Á", "Â", "Ã", "Ä", "Å", "Æ", "Ç",
     "È", "É", "Ê", "Ë", "Ì", "Í", "Î", "Ï", "Ð", "Ñ", "Ò", "Ó", "Ô", "Õ", "Ö", "×", "Ø", "Ù",
     "Ú", "Û", "Ü", "Ý", "Þ", "ß", "à", "á", "â", "ã", "ä", "å", "æ", "ç", "è", "é", "ê", "ë",
     "ì", "í", "î", "ï", "ð", "ñ", "ò", "ó", "ô", "õ", "ö", "÷", "ø", "ù", "ú", "û", "ü", "ý",
     "þ"}

\* The characters str.isspace() holds of: those str.strip() removes
Whitespace == {"\t", "\n", "", "\f", "\r", "", "", "", "", " ", "", " "}

\* The characters str.isdigit() holds of
Digits ==
    {"0", "1", "2", "3", "4", "5", "6", "7", "8", "9", "²", "³", "¹"}

\* The characters \d matches in a pydantic pattern
DecimalDigits == {"0", "1", "2", "3", "4", "5", "6", "7", "8", "9"}

\* str.upper() of the characters it changes
UpperOf ==
    ("a" :> <<"A">>) @@ ("b" :> <<"B">>) @@ ("c" :> <<"C">>) @@ ("d" :> <<"D">>) @@
    ("e" :> <<"E">>) @@ ("f" :> <<"F">>) @@ ("g" :> <<"G">>) @@ ("h" :> <<"H">>) @@
    ("i" :> <<"I">>) @@ ("j" :> <<"J">>) @@ ("k" :> <<"K">>) @@ ("l" :> <<"L">>) @@
    ("m" :> <<"M">>) @@ ("n" :> <<"N">>) @@ ("o" :> <<"O">>) @@ ("p" :> <<"P">>) @@
    ("q" :> <<"Q">>) @@ ("r" :> <<"R">>) @@ ("s" :> <<"S">>) @@ ("t" :> <<"T">>) @@
    ("u" :> <<"U">>) @@ ("v" :> <<"V">>) @@ ("w" :> <<"W">>) @@ ("x" :> <<"X">>) @@
    ("y" :> <<"Y">>) @@ ("z" :> <<"Z">>) @@ ("ß" :> <<"S", "S">>) @@ ("à" :> <<"À">>) @@
    ("á" :> <<"Á">>) @@ ("â" :> <<"Â">>) @@ ("ã" :> <<"Ã">>) @@ ("ä" :> <<"Ä">>) @@
    ("å" :> <<"Å">>) @@ ("æ" :> <<"Æ">>) @@ ("ç" :> <<"Ç">>) @@ ("è" :> <<"È">>) @@
    ("é" :> <<"É">>) @@ ("ê" :> <<"Ê">>) @@ ("ë" :> <<"Ë">>) @@ ("ì" :> <<"Ì">>) @@
    ("í" :> <<"Í">>) @@ ("î" :> <<"Î">>) @@ ("ï" :> <<"Ï">>) @@ ("ð" :> <<"Ð">>) @@
    ("ñ" :> <<"Ñ">>) @@ ("ò" :> <<"Ò">>) @@ ("ó" :> <<"Ó">>) @@ ("ô" :> <<"Ô">>) @@
    ("õ" :> <<"Õ">>) @@ ("ö" :> <<"Ö">>) @@ ("ø" :> <<"Ø">>) @@ ("ù" :> <<"Ù">>) @@
    ("ú" :> <<"Ú">>) @@ ("û" :> <<"Û">>) @@ ("ü" :> <<"Ü">>) @@ ("ý" :> <<"Ý">>) @@
    ("þ" :> <<"Þ">>)

\* str.lower() of the characters it changes
LowerOf ==
    ("A" :> <<"a">>) @@ ("B" :> <<"b">>) @@ ("C" :> <<"c">>) @@ ("D" :> <<"d">>) @@
    ("E" :> <<"e">>) @@ ("F" :> <<"f">>) @@ ("G" :> <<"g">>) @@ ("H" :> <<"h">>) @@
    ("I" :> <<"i">>) @@ ("J" :> <<"j">>) @@ ("K" :> <<"k">>) @@ ("L" :> <<"l">>) @@
    ("M" :> <<"m">>) @@ ("N" :> <<"n">>) @@ ("O" :> <<"o">>) @@ ("P" :> <<"p">>) @@
    ("Q" :> <<"q">>) @@ ("R" :> <<"r">>) @@ ("S" :> <<"s">>) @@ ("T" :> <<"t">>) @@
    ("U" :> <<"u">>) @@ ("V" :> <<"v">>) @@ ("W" :> <<"w">>) @@ ("X" :> <<"x">>) @@
    ("Y" :> <<"y">>) @@ ("Z" :> <<"z">>) @@ ("À" :> <<"à">>) @@ ("Á" :> <<"á">>) @@
    ("Â" :> <<"â">>) @@ ("Ã" :> <<"ã">>) @@ ("Ä" :> <<"ä">>) @@ ("Å" :> <<"å">>) @@
    ("Æ" :> <<"æ">>) @@ ("Ç" :> <<"ç">>) @@ ("È" :> <<"è">>) @@ ("É" :> <<"é">>) @@
    ("Ê" :> <<"ê">>) @@ ("Ë" :> <<"ë">>) @@ ("Ì" :> <<"ì">>) @@ ("Í" :> <<"í">>) @@
    ("Î" :> <<"î">>) @@ ("Ï" :> <<"ï">>) @@ ("Ð" :> <<"ð">>) @@ ("Ñ" :> <<"ñ">>) @@
    ("Ò" :> <<"ò">>) @@ ("Ó" :> <<"ó">>) @@ ("Ô" :> <<"ô">>) @@ ("Õ" :> <<"õ">>) @@
    ("Ö" :> <<"ö">>) @@ ("Ø" :> <<"ø">>) @@ ("Ù" :> <<"ù">>) @@ ("Ú" :> <<"ú">>) @@
    ("Û" :> <<"û">>) @@ ("Ü" :> <<"ü">>) @@ ("Ý" :> <<"ý">>) @@ ("Þ" :> <<"þ">>)

\* A character of the alphabet; no value for any other
char(c) == CHOOSE x \in {c} : x \in Alphabet

\* A str method that works character by character
RECURSIVE map_chars(_, _)
map_chars(table, s) ==
    IF s = <<>> THEN <<>>
    ELSE (IF Head(s) \in DOMAIN table THEN table[Head(s)] ELSE <<char(Head(s))>>)
         \o map_chars(table, Tail(s))

\* str.upper()
upper(s) == map_chars(UpperOf, s)

\* str.lower()
lower(s) == map_chars(LowerOf, s)

RECURSIVE lstrip(_)
lstrip(s) == IF s # <<>> /\ char(Head(s)) \in Whitespace THEN lstrip(Tail(s)) ELSE s

RECURSIVE rstrip(_)
rstrip(s) ==
    IF s # <<>> /\ char(s[Len(s)]) \in Whitespace THEN rstrip(SubSeq(s, 1, Len(s) - 1)) ELSE s

\* str.strip()
strip(s) == rstrip(lstrip(s))

\* s[:n]
prefix(s, n) == SubSeq(s, 1, Min(n, Len(s)))

\* "".join(filter(str.isdigit, s))
digits_of(s) == SelectSeq(s, LAMBDA c : char(c) \in Digits)

\* the pattern ^\d{n}$
matches_digits(s, n) == Len(s) = n /\ \A i \in DOMAIN s : char(s[i]) \in DecimalDigits

\* phrase in text
contains(text, phrase) ==
    \E i \in 1..(Len(text) - Len(phrase) + 1) :
        SubSeq(text, i, i + Len(phrase) - 1) = phrase

-----------------------------------------------------------------------------
(* Task catalog and onboarding question metadata (seeded reference data)   *)

\* formalization_tasks_catalog: code -> blocking
Catalog ==
    [HAS_CPF |-> TRUE,
     HAS_FAMILY_FARMER_REGISTRATION |-> TRUE,
     HAS_BANK_ACCOUNT |-> TRUE,
     HAS_ADDRESS_PROOF |-> FALSE,
     SALES_PROJECT_READY |-> FALSE,
     PUBLIC_CALL_SUBMISSION_READY |-> FALSE]

\* One onboarding question; the default questions set neither sets_flag nor
\* affects_task
Question(question_id, question_type, requirement_id, allow_multiple) ==
    [question_id |-> question_id, question_type |-> question_type,
     requirement_id |-> requirement_id, allow_multiple |-> allow_multiple,
     sets_flag |-> NoneVal, affects_task |-> NoneVal]

\* onboarding questions: the default set the service seeds when the collection
\* is empty and no CSV file is found
Questions ==
    {Question("producer_type", "choice", NoneVal, FALSE),
     Question("name", "text", NoneVal, FALSE),
     Question("address", "text", NoneVal, FALSE),
     Question("city", "text", NoneVal, FALSE),
     Question("state", "text", NoneVal, FALSE),
     Question("has_dap_caf", "boolean", "dap_caf", FALSE),
     Question("has_cnpj", "boolean", "cnpj", FALSE),
     Question("has_address_proof", "boolean", "proof_address", FALSE),
     Question("has_bank_account", "boolean", "bank_statement", FALSE),
     Question("production_type", "choice", NoneVal, FALSE),
     Question("main_products", "choice", NoneVal, TRUE),
     Question("production_capacity", "text", NoneVal, FALSE),
     Question("has_previous_sales", "boolean", NoneVal, FALSE),
     Question("is_indigenous_or_traditional", "boolean", NoneVal, FALSE)}

task_to_requirement_map ==
    [HAS_CPF |-> "has_cpf",
     HAS_FAMILY_FARMER_REGISTRATION |-> "dap_caf",
     HAS_BANK_ACCOUNT |-> "bank_statement",
     HAS_ADDRESS_PROOF |-> "proof_address",
     SALES_PROJECT_READY |-> NoneVal,
     PUBLIC_CALL_SUBMISSION_READY |-> NoneVal,
     PRODUCTION_IS_ELIGIBLE |-> NoneVal,
     BASIC_DOCUMENTS_READY |-> NoneVal]

\* FormalizationRepository._get_requirement_id_for_task_code
get_requirement_id_for_task_code(task_code) ==
    LET hits == {q \in Questions : /\ q.affects_task = task_code
                                   /\ (q.requirement_id # NoneVal \/ q.sets_flag # NoneVal)}
    IN  IF hits # {}
        THEN LET q == CHOOSE q \in hits : TRUE
             IN  IF q.requirement_id # NoneVal THEN q.requirement_id ELSE q.sets_flag
        ELSE Get(task_to_requirement_map, task_code, NoneVal)

-----------------------------------------------------------------------------
(* FormalizationRepository                                                 *)

\* Variant of the loop body without the done guard of repo.py 180: a row whose
\* code is not required is marked skipped whatever its status.
existing_task_update_without_done_guard(existing_task, required_set, t) ==
    IF existing_task.task_code \in required_set
    THEN IF existing_task.status = "skipped"
         THEN [status |-> "pending", updated_at |-> t]
         ELSE NoDoc
    ELSE [status |-> "skipped", updated_at |-> t]

\* Variant of the loop body that leaves a skipped row alone when its code is
\* required again (no reactivation, repo.py 172-179 removed).
existing_task_update_without_reactivation(existing_task, required_set, t) ==
    IF existing_task.task_code \in required_set
    THEN NoDoc
    ELSE IF existing_task.status # "done"
         THEN [status |-> "skipped", updated_at |-> t]
         ELSE NoDoc

\* One iteration of the loop over existing tasks (repo.py 157-197): the $set
\* document of the update_one it issues, NoDoc when it issues none.
existing_task_update(existing_task, required_set, t) ==
    LET task_code == existing_task.task_code
        requirement_id == get_requirement_id_for_task_code(task_code)
    IN  IF task_code \in required_set
        THEN IF existing_task.status = "done"
             THEN IF existing_task.requirement_id = NoneVal /\ requirement_id # NoneVal
                  THEN [requirement_id |-> requirement_id, updated_at |-> t]
                  ELSE NoDoc
             ELSE IF existing_task.status = "skipped"
                  THEN IF requirement_id # NoneVal
                       THEN [status |-> "pending", updated_at |-> t,
                             requirement_id |-> requirement_id]
                       ELSE [status |-> "pending", updated_at |-> t]
                  ELSE NoDoc
        ELSE IF existing_task.status # "done"
             THEN [status |-> "skipped", updated_at |-> t]
             ELSE NoDoc

\* update_one({"_id": id}, {"$set": upd}) on the user-task collection
update_one_task(rows, id, upd) ==
    IF upd = NoDoc THEN rows ELSE [rows EXCEPT ![id] = SetFields(@, upd)]

\* The document built for a required code that has no row (repo.py 215-223)
new_task_doc(task_code, t) ==
    [task_code |-> task_code,
     status |-> "pending",
     blocking |-> Catalog[task_code],
     requirement_id |-> get_requirement_id_for_task_code(task_code),
     created_at |-> t,
     updated_at |-> t]

\* The rows with their _id (the position in insertion order) as field id
with_id(rows) == [i \in DOMAIN rows |-> SetFields(rows[i], [id |-> i])]

RECURSIVE sorted_from(_, _)
sorted_from(rows, t) ==
    IF t > MaxTime THEN <<>>
    ELSE SelectSeq(rows, LAMBDA r : r.created_at = t) \o sorted_from(rows, t + 1)

\* FormalizationRepository.get_user_tasks: the user's rows sorted by
\* created_at, rows of one instant in insertion order
get_user_tasks(rows) == sorted_from(with_id(rows), 0)

\* The row find_one_and_update selects for {"user_id", "task_code"}: the first match
find_task(rows, task_code) ==
    IF \E i \in DOMAIN rows : rows[i].task_code = task_code
    THEN CHOOSE i \in DOMAIN rows :
            /\ rows[i].task_code = task_code
            /\ \A j \in DOMAIN rows : rows[j].task_code = task_code => i <= j
    ELSE 0

\* FormalizationRepository.update_task_status
repo_update_task_status(rows, task_code, status, t) ==
    LET i == find_task(rows, task_code)
    IN  IF i = 0 THEN rows
        ELSE update_one_task(rows, i, [status |-> status, updated_at |-> t])

-----------------------------------------------------------------------------
(* Required-task rules (rules.py)                                          *)

compute_required_tasks(producer_profile) ==
    LET has_cpf == Get(producer_profile, "has_cpf", TRUE)
        registration == Get(producer_profile, "has_family_farmer_registration", FALSE)
        has_dap_caf == Get(producer_profile, "has_dap_caf", FALSE)
        has_bank_account == Get(producer_profile, "has_bank_account", FALSE)
        wants_to_sell_to_school == Get(producer_profile, "wants_to_sell_to_school", FALSE)
        has_family_farmer_registration == IF ~registration THEN has_dap_caf ELSE registration
        has_address_proof == Get(producer_profile, "has_address_proof", FALSE)
    IN  (IF ~has_cpf THEN <<"HAS_CPF">> ELSE <<>>)
        \o (IF ~has_family_farmer_registration
            THEN <<"HAS_FAMILY_FARMER_REGISTRATION">> ELSE <<>>)
        \o (IF ~has_bank_account THEN <<"HAS_BANK_ACCOUNT">> ELSE <<>>)
        \o (IF ~has_address_proof THEN <<"HAS_ADDRESS_PROOF">> ELSE <<>>)
        \o (IF wants_to_sell_to_school
            THEN <<"SALES_PROJECT_READY", "PUBLIC_CALL_SUBMISSION_READY">> ELSE <<>>)

-----------------------------------------------------------------------------
(* Producer profile (producers/schemas.py, producers/service.py)           *)

\* The values of the ProducerType enum
ProducerTypes == {<<"f", "o", "r", "m", "a", "l">>, <<"i", "n", "f", "o", "r", "m", "a", "l">>, <<"i", "n", "d", "i", "v", "i", "d", "u", "a", "l">>}

\* users collection: the document of the user, whose cpf login stores as its
\* eleven digits (auth/service.py 60-131)
users == [u1 |-> [cpf |-> <<"5", "2", "9", "9", "8", "2", "2", "4", "7", "2", "5">>], u2 |-> [cpf |-> <<"1", "1", "1", "4", "4", "4", "7", "7", "7", "3", "5">>]]

\* The fields ProducerProfileInDB declares; any other key of the stored
\* document is dropped when the model is built from it.
ProducerProfileInDBFields ==
    {"producer_type", "name", "address", "city", "state", "dap_caf_number", "cnpj",
     "cpf", "members", "bank_name", "bank_agency", "bank_account", "user_id",
     "created_at", "updated_at", "onboarding_status", "onboarding_completed_at"}

\* ProducerProfileInDB(**doc): the declared fields of doc
ProducerProfileInDB(doc) ==
    [f \in (DOMAIN doc) \cap ProducerProfileInDBFields |-> doc[f]]

\* The constraints ProducerProfileInDB(**doc) checks on a stored document
\* (schemas.py 45-109): the ProducerType enum, the lengths of the required
\* texts, the patterns of cnpj and cpf, and a non-empty cnpj for a formal
\* producer.  A field that is None is a key the document does not have: no
\* write of the program stores None in these fields.
profile_is_valid(doc) ==
    /\ doc["producer_type"] \in ProducerTypes
    /\ {"name", "address", "city", "state"} \subseteq DOMAIN doc
    /\ Len(doc["name"]) >= 1 /\ Len(doc["name"]) <= 200
    /\ Len(doc["address"]) >= 1 /\ Len(doc["address"]) <= 500
    /\ Len(doc["city"]) >= 1 /\ Len(doc["city"]) <= 100
    /\ Len(doc["state"]) = 2
    /\ ("dap_caf_number" \in DOMAIN doc => Len(doc["dap_caf_number"]) <= 50)
    /\ ("cnpj" \in DOMAIN doc => matches_digits(doc["cnpj"], 14))
    /\ ("cpf" \in DOMAIN doc => matches_digits(doc["cpf"], 11))
    /\ (doc["producer_type"] = <<"f", "o", "r", "m", "a", "l">> => "cnpj" \in DOMAIN doc /\ doc["cnpj"] # <<>>)

\* producer_mode_map of get_profile_by_user
producer_mode_map == (<<"s", "o", "z", "i", "n", "h", "o">> :> <<"i", "n", "d", "i", "v", "i", "d", "u", "a", "l">>) @@ (<<"g", "r", "u", "p", "o">> :> <<"i", "n", "f", "o", "r", "m", "a", "l">>)

\* The producer_type inferred from a stored producer_mode (service.py 95-108);
\* the stored value carries its Python type: [bool |-> b] or [str |-> s]
producer_type_of_mode(producer_mode) ==
    IF "bool" \in DOMAIN producer_mode
    THEN IF producer_mode["bool"] THEN <<"i", "n", "f", "o", "r", "m", "a", "l">> ELSE <<"i", "n", "d", "i", "v", "i", "d", "u", "a", "l">>
    ELSE IF "str" \in DOMAIN producer_mode
    THEN Get(producer_mode_map, lower(producer_mode["str"]), <<"i", "n", "d", "i", "v", "i", "d", "u", "a", "l">>)
    ELSE <<"i", "n", "d", "i", "v", "i", "d", "u", "a", "l">>

\* The texts that stand in for missing required fields (service.py 127-139)
profile_defaults ==
    [name |-> <<"N", "o", "m", "e", " ", "n", "ã", "o", " ", "i", "n", "f", "o", "r", "m", "a", "d", "o">>,
     address |-> <<"E", "n", "d", "e", "r", "e", "ç", "o", " ", "n", "ã", "o", " ", "i", "n", "f", "o", "r", "m", "a", "d", "o">>,
     city |-> <<"C", "i", "d", "a", "d", "e", " ", "n", "ã", "o", " ", "i", "n", "f", "o", "r", "m", "a", "d", "a">>,
     state |-> <<"X", "X">>]

\* ProducerService.get_profile_by_user: the profile model, NoDoc for None.
\* user_doc is the document users.find_one returns, which the code reads
\* when the profile of an individual or informal producer has no cpf.
get_profile_by_user(doc, user_doc) ==
    IF doc = NoDoc THEN NoDoc
    ELSE LET required_fields == {"producer_type", "name", "address", "city", "state"}
             missing_fields == required_fields \ DOMAIN doc
             inferred == IF "producer_type" \notin DOMAIN doc /\ "producer_mode" \in DOMAIN doc
                         THEN SetFields(doc, [producer_type |->
                                                producer_type_of_mode(doc["producer_mode"])])
                         ELSE doc
         IN  IF missing_fields # {} /\ "producer_type" \notin DOMAIN inferred THEN NoDoc
             ELSE LET filled == [f \in (DOMAIN inferred) \cup (missing_fields \ {"producer_type"})
                                   |-> IF f \in DOMAIN inferred THEN inferred[f]
                                       ELSE profile_defaults[f]]
                      producer_type == Get(filled, "producer_type", NoneVal)
                      with_cpf ==
                          IF /\ "cpf" \notin DOMAIN filled
                             /\ producer_type \in {<<"i", "n", "d", "i", "v", "i", "d", "u", "a", "l">>, <<"i", "n", "f", "o", "r", "m", "a", "l">>}
                             /\ user_doc # NoDoc /\ Get(user_doc, "cpf", <<>>) # <<>>
                          THEN SetFields(filled, [cpf |-> user_doc["cpf"]])
                          ELSE filled
                  IN  IF profile_is_valid(with_cpf) THEN ProducerProfileInDB(with_cpf)
                      ELSE NoDoc

\* ProducerService.upsert_profile: $set of the submitted fields
upsert_profile(doc, data) ==
    SetFields(doc, SetFields(data, [user_id |-> "u1"]))

-----------------------------------------------------------------------------
(* Eligibility rules (diagnosis.py, producer_utils.py)                     *)

FORMAL_PRODUCER_TYPES == {<<"f", "o", "r", "m", "a", "l", " ", "(", "c", "n", "p", "j", ")">>, <<"f", "o", "r", "m", "a", "l">>, <<"g", "r", "u", "p", "o", " ", "f", "o", "r", "m", "a", "l", " ", "(", "c", "n", "p", "j", ")">>}

\* producer_type.lower().strip(), "" for None and for the empty text (both
\* are the empty sequence)
normalize_producer_type(producer_type) ==
    IF producer_type = <<>> THEN <<>> ELSE strip(lower(producer_type))

is_formal_producer(producer_type) ==
    normalize_producer_type(producer_type) \in FORMAL_PRODUCER_TYPES

\* Variant of the CNPJ points that asks a CNPJ of every producer
cnpj_points_for_all(is_formal, has_cnpj) == IF has_cnpj THEN 20 ELSE 0

\* The type-specific points (diagnosis.py 97-100)
cnpj_points(is_formal, has_cnpj) ==
    IF is_formal /\ has_cnpj THEN 20 ELSE IF ~is_formal THEN 20 ELSE 0

\* Variant of the tier rule without the essential documents
eligibility_level_by_score(essential_ok, score) ==
    IF score >= 70 THEN "eligible"
    ELSE IF score >= 50 THEN "partially_eligible"
    ELSE "not_eligible"

\* Variant of the tier rule that asks 90 points of an eligible producer
eligibility_level_from_ninety(essential_ok, score) ==
    IF essential_ok /\ score >= 90 THEN "eligible"
    ELSE IF essential_ok /\ score >= 50 THEN "partially_eligible"
    ELSE "not_eligible"

\* The tier rule (diagnosis.py 114-122)
eligibility_level_for(essential_ok, score) ==
    IF essential_ok /\ score >= 70 THEN "eligible"
    ELSE IF essential_ok /\ score >= 50 THEN "partially_eligible"
    ELSE "not_eligible"

calculate_eligibility(responses) ==
    LET has_dap_caf == Get(responses, "has_dap_caf", FALSE)
        has_cnpj == Get(responses, "has_cnpj", FALSE)
        producer_type_pref == Get(responses, "producer_type", <<>>)
        has_previous_public_sales == Get(responses, "has_previous_sales", FALSE)
        has_bank_account == Get(responses, "has_bank_account", FALSE)
        has_address_proof == Get(responses, "has_address_proof", FALSE)
        is_formal == is_formal_producer(producer_type_pref)
        met == (IF has_dap_caf THEN <<"DAP ou CAF">> ELSE <<>>)
               \o (IF is_formal /\ has_cnpj THEN <<"CNPJ (para grupo formal)">> ELSE <<>>)
               \o (IF has_bank_account THEN <<"Conta bancária">> ELSE <<>>)
               \o (IF has_address_proof THEN <<"Comprovante de endereço">> ELSE <<>>)
        missing == (IF ~has_dap_caf THEN <<"DAP ou CAF">> ELSE <<>>)
               \o (IF is_formal /\ ~has_cnpj THEN <<"CNPJ (para grupo formal)">> ELSE <<>>)
               \o (IF ~has_bank_account THEN <<"Conta bancária">> ELSE <<>>)
               \o (IF ~has_address_proof THEN <<"Comprovante de endereço">> ELSE <<>>)
        score == 30
                 + (IF has_dap_caf THEN 30 ELSE 0)
                 + cnpj_points(is_formal, has_cnpj)
                 + (IF has_bank_account THEN 10 ELSE 0)
                 + (IF has_address_proof THEN 10 ELSE 0)
                 + (IF has_previous_public_sales THEN 5 ELSE 0)
        essential_ok == has_dap_caf /\ (~is_formal \/ has_cnpj)
        eligibility_level == eligibility_level_for(essential_ok, score)
        is_eligible == eligibility_level = "eligible"
        recommendations ==
               (IF ~has_dap_caf
                THEN <<"Obtenha sua DAP (Declaração de Aptidão ao Pronaf) na Emater ou órgão similar">>
                ELSE <<>>)
               \o (IF is_formal /\ ~has_cnpj
                   THEN <<"Registre CNPJ para sua cooperativa ou associação">> ELSE <<>>)
               \o (IF ~has_bank_account
                   THEN <<"Abra uma conta bancária para receber pagamentos">> ELSE <<>>)
               \o (IF ~has_address_proof
                   THEN <<"Tenha um comprovante de endereço atualizado">> ELSE <<>>)
               \o (IF ~has_previous_public_sales /\ is_eligible
                   THEN <<"Considere participar de pequenas chamadas para ganhar experiência">>
                   ELSE <<>>)
    IN  [is_eligible |-> is_eligible,
         eligibility_level |-> eligibility_level,
         score |-> Min(100, Max(0, score)),
         requirements_met |-> met,
         requirements_missing |-> missing,
         recommendations |-> recommendations]

-----------------------------------------------------------------------------
(* FormalizationService (formalization/service.py)                         *)

\* Variant in which an onboarding answer is kept when there is one
override_keeps_answer(responses, producer_profile, key) ==
    IF key \in DOMAIN producer_profile /\ key \notin DOMAIN responses
    THEN SetFields(responses, key :> producer_profile[key])
    ELSE responses

\* responses[key] = producer_profile[key] when the profile document has the key
override(responses, producer_profile, key) ==
    IF key \in DOMAIN producer_profile
    THEN SetFields(responses, key :> producer_profile[key])
    ELSE responses

\* The flat mapping given to calculate_eligibility (service.py 61-107)
build_responses(answers_dict, producer_profile) ==
    LET r0 == answers_dict
        r1 == IF Get(producer_profile, "producer_type", <<>>) # <<>>
              THEN SetFields(r0, "producer_type" :> producer_profile["producer_type"])
              ELSE r0
        r2 == override(r1, producer_profile, "has_dap_caf")
        r3 == override(r2, producer_profile, "has_family_farmer_registration")
        r4 == IF Get(producer_profile, "has_family_farmer_registration", FALSE)
              THEN SetFields(r3, "has_dap_caf" :> TRUE)
              ELSE r3
        r5 == override(r4, producer_profile, "has_bank_account")
        r6 == override(r5, producer_profile, "has_cpf")
        r7 == override(r6, producer_profile, "has_cnpj")
        r8 == override(r7, producer_profile, "has_address_proof")
    IN  override(r8, producer_profile, "has_previous_sales")

\* FormalizationService._has_diagnosis_changed
has_diagnosis_changed(cached_doc, new_diagnosis) ==
    \/ Get(cached_doc, "is_eligible", NoneVal) # new_diagnosis.is_eligible
    \/ Get(cached_doc, "score", NoneVal) # new_diagnosis.score
    \/ Range(Get(cached_doc, "requirements_met", <<>>))
          # Range(new_diagnosis.requirements_met)
    \/ Range(Get(cached_doc, "requirements_missing", <<>>))
          # Range(new_diagnosis.requirements_missing)

\* The status document upserted into the cache (service.py 117-126)
status_doc(diagnosis, t) ==
    [user_id |-> "u1",
     is_eligible |-> diagnosis.is_eligible,
     eligibility_level |-> diagnosis.eligibility_level,
     score |-> diagnosis.score,
     requirements_met |-> diagnosis.requirements_met,
     requirements_missing |-> diagnosis.requirements_missing,
     recommendations |-> diagnosis.recommendations,
     diagnosed_at |-> t]

\* The whole numbers k for which the double product (k / 100) * 100 lies
\* below k: 0.29 * 100 is 28.999999999999996, 0.57 * 100 and 0.58 * 100 are
\* 56.99999999999999 and 57.99999999999999.  For every other quotient the
\* rounding error of the double division and product is too small to reach
\* the next whole number.
TruncatedPercents == {29, 57, 58}

\* int((completed_tasks / total_tasks) * 100) in double arithmetic
percent_of(completed_tasks, total_tasks) ==
    LET exact == (completed_tasks * 100) \div total_tasks
    IN  IF (completed_tasks * 100) % total_tasks = 0 /\ exact \in TruncatedPercents
        THEN exact - 1
        ELSE exact

\* The progress score of get_or_calculate_status, 0 without tasks (service.py 141-148)
progress_score(user_tasks) ==
    LET total_tasks == Len(user_tasks)
        completed_tasks == Cardinality({i \in DOMAIN user_tasks : user_tasks[i].status = "done"})
    IN  IF total_tasks > 0 THEN percent_of(completed_tasks, total_tasks) ELSE 0

\* model_dump(exclude_none=True) and compute_required_tasks (service.py 234-237)
required_for_profile(producer_profile) ==
    compute_required_tasks(producer_profile)

\* task_mapping of _update_profile_from_task_completion (service.py 287-308)
task_mapping ==
    [HAS_CPF |->
        [profile_flags |-> [has_cpf |-> TRUE], question_id |-> "has_cpf", answer |-> TRUE],
     HAS_FAMILY_FARMER_REGISTRATION |->
        [profile_flags |-> [has_family_farmer_registration |-> TRUE, has_dap_caf |-> TRUE],
         question_id |-> "has_dap_caf", answer |-> TRUE],
     HAS_BANK_ACCOUNT |->
        [profile_flags |-> [has_bank_account |-> TRUE], question_id |-> "has_bank_account",
         answer |-> TRUE],
     HAS_ADDRESS_PROOF |->
        [profile_flags |-> [has_address_proof |-> TRUE], question_id |-> "has_address_proof",
         answer |-> TRUE]]

\* Variant of the completion hook that writes no profile flag
complete_profile_without_flags(profile_doc, task_code) == profile_doc

\* producer_profiles.update_one($set flags, upsert=False) (service.py 315-319)
complete_profile(profile_doc, task_code) ==
    IF task_code \in DOMAIN task_mapping /\ profile_doc # NoDoc
    THEN SetFields(profile_doc, task_mapping[task_code].profile_flags)
    ELSE profile_doc

\* onboarding_answers.update_one($set answer, upsert=True) (service.py 332-341)
complete_answer(answers_docs, task_code, t) ==
    IF task_code \in DOMAIN task_mapping
    THEN LET question_id == task_mapping[task_code].question_id
         IN  SetFields(answers_docs,
                       question_id :> SetFields(Get(answers_docs, question_id, <<>>),
                                                [answer |-> task_mapping[task_code].answer,
                                                 answer_type |-> "bool",
                                                 answered_at |-> t]))
    ELSE answers_docs

-----------------------------------------------------------------------------
(* OnboardingService (onboarding/service.py)                               *)

\* _get_question_by_id: the question, NoDoc when the id is unknown
get_question_by_id(question_id) ==
    IF \E q \in Questions : q.question_id = question_id
    THEN CHOOSE q \in Questions : q.question_id = question_id
    ELSE NoDoc

\* The Python types of the answers the model submits; the items of a list
\* answer carry theirs: [str |-> s] or [int |-> n]
AnswerTypes == {"bool", "str", "list"}

\* The checks save_answer makes on the answer (service.py 214-230): a bool
\* for a boolean question; for a multi-select question a list, of str items
\* only, and not empty
answer_is_valid(question, answer, answer_type) ==
    /\ question.question_type = "boolean" => answer_type = "bool"
    /\ question.allow_multiple =>
          /\ answer_type = "list"
          /\ \A i \in DOMAIN answer : "str" \in DOMAIN answer[i]
          /\ Len(answer) # 0

\* str(answer) of a str or a bool
str_of(answer, answer_type) ==
    CASE answer_type = "str" -> answer
      [] answer_type = "bool" -> IF answer THEN <<"T", "r", "u", "e">> ELSE <<"F", "a", "l", "s", "e">>

\* bool(answer)
bool_of(answer, answer_type) ==
    CASE answer_type = "bool" -> answer
      [] answer_type = "str" -> answer # <<>>
      [] answer_type = "list" -> answer # <<>>

\* producer_type_map of _update_profile_from_answer
producer_type_map ==
    (<<"I", "n", "d", "i", "v", "i", "d", "u", "a", "l">> :> <<"i", "n", "d", "i", "v", "i", "d", "u", "a", "l">>) @@ (<<"I", "n", "f", "o", "r", "m", "a", "l">> :> <<"i", "n", "f", "o", "r", "m", "a", "l">>)
    @@ (<<"F", "o", "r", "m", "a", "l", " ", "(", "C", "N", "P", "J", ")">> :> <<"f", "o", "r", "m", "a", "l">>) @@ (<<"G", "r", "u", "p", "o", " ", "I", "n", "f", "o", "r", "m", "a", "l">> :> <<"i", "n", "f", "o", "r", "m", "a", "l">>)
    @@ (<<"G", "r", "u", "p", "o", " ", "F", "o", "r", "m", "a", "l", " ", "(", "C", "N", "P", "J", ")">> :> <<"f", "o", "r", "m", "a", "l">>) @@ (<<"s", "o", "z", "i", "n", "h", "o">> :> <<"i", "n", "d", "i", "v", "i", "d", "u", "a", "l">>)
    @@ (<<"g", "r", "u", "p", "o">> :> <<"i", "n", "f", "o", "r", "m", "a", "l">>)

\* update_doc of _update_profile_from_answer for a question without sets_flag:
\* the producer type, the texts, or the flags of the legacy question ids
update_doc_from_answer(question_id, answer, answer_type) ==
    CASE question_id = "producer_type" ->
            [producer_type |->
                Get(producer_type_map, str_of(answer, answer_type), <<"i", "n", "d", "i", "v", "i", "d", "u", "a", "l">>)]
      [] question_id = "name" -> [name |-> strip(str_of(answer, answer_type))]
      [] question_id = "address" -> [address |-> strip(str_of(answer, answer_type))]
      [] question_id = "city" -> [city |-> strip(str_of(answer, answer_type))]
      [] question_id = "state" ->
            [state |-> prefix(upper(strip(str_of(answer, answer_type))), 2)]
      [] question_id = "cnpj" ->
            LET cnpj_clean == prefix(digits_of(str_of(answer, answer_type)), 14)
            IN  IF cnpj_clean # <<>> THEN [cnpj |-> cnpj_clean] ELSE <<>>
      [] question_id = "has_dap_caf" ->
            [has_dap_caf |-> bool_of(answer, answer_type),
             has_family_farmer_registration |-> bool_of(answer, answer_type)]
      [] question_id = "has_bank_account" ->
            [has_bank_account |-> bool_of(answer, answer_type)]
      [] question_id = "has_cnpj" -> [has_cnpj |-> bool_of(answer, answer_type)]
      [] question_id = "has_previous_sales" \/ question_id = "experience_1" ->
            [wants_to_sell_to_school |-> bool_of(answer, answer_type)]
      [] OTHER -> <<>>

\* The document save_answer upserts into onboarding_answers (service.py
\* 233-246); answer_type is the Python type the stored value keeps
answer_doc(answer, answer_type, t) ==
    [answer |-> answer, answer_type |-> answer_type, answered_at |-> t]

\* get_all_answers reduced to the answers: question_id -> answer
answer_values(answers_docs) ==
    [question_id \in DOMAIN answers_docs |-> answers_docs[question_id].answer]

\* The status get_status computes from the answered questions that exist
onboarding_status(answered_question_ids) ==
    LET valid_question_ids == {q.question_id : q \in Questions}
        answered_count == Cardinality(answered_question_ids \cap valid_question_ids)
    IN  IF answered_count = 0 THEN "not_started"
        ELSE IF answered_count >= Cardinality(Questions) THEN "completed"
        ELSE "in_progress"

\* The status _ensure_profile_exists computes, of every answered id
\* (service.py 735-746)
ensure_status(answered_question_ids) ==
    LET answered_count == Cardinality(answered_question_ids)
    IN  IF answered_count >= Cardinality(Questions) THEN "completed"
        ELSE IF answered_count > 0 THEN "in_progress"
        ELSE "not_started"

\* find(user).sort("answered_at", -1).limit(1): the completion date as the
\* field completed_at, no field when the user has no answer
latest_answered_at(answers_docs) ==
    IF DOMAIN answers_docs = {} THEN <<>>
    ELSE [completed_at |->
            CHOOSE t \in {answers_docs[q].answered_at : q \in DOMAIN answers_docs} :
                \A q \in DOMAIN answers_docs : answers_docs[q].answered_at <= t]

\* _update_profile_status: update_one($set onboarding_status and, when the
\* onboarding is completed, onboarding_completed_at; $setOnInsert user_id;
\* upsert=True) on the profile (service.py 530-553).  status is the response
\* of get_status, without the field completed_at when that is None.
update_profile_status(profile_doc, status) ==
    LET existing == IF profile_doc = NoDoc THEN [user_id |-> "u1"] ELSE profile_doc
        update_doc ==
            IF status.status = "completed" /\ "completed_at" \in DOMAIN status
            THEN [onboarding_status |-> status.status,
                  onboarding_completed_at |-> status.completed_at]
            ELSE [onboarding_status |-> status.status]
    IN  SetFields(existing, update_doc)

\* The document _ensure_profile_exists inserts (service.py 748-754); a
\* completion date of None is a field the document does not have
ensure_profile_doc(status) ==
    SetFields([user_id |-> "u1", onboarding_status |-> status.status],
              IF "completed_at" \in DOMAIN status
              THEN [onboarding_completed_at |-> status.completed_at] ELSE <<>>)

placeholder_values ==
    {<<"N", "o", "m", "e", " ", "n", "ã", "o", " ", "i", "n", "f", "o", "r", "m", "a", "d", "o">>, <<"E", "n", "d", "e", "r", "e", "ç", "o", " ", "n", "ã", "o", " ", "i", "n", "f", "o", "r", "m", "a", "d", "o">>, <<"C", "i", "d", "a", "d", "e", " ", "n", "ã", "o", " ", "i", "n", "f", "o", "r", "m", "a", "d", "a">>, <<"X", "X">>}

\* has_all_required of _create_profile_from_answers (service.py 565-574)
has_all_required(existing) ==
    LET required_fields == {"producer_type", "name", "address", "city", "state"}
    IN  /\ required_fields \subseteq DOMAIN existing
        /\ \A field \in required_fields :
              existing[field] # <<>> /\ existing[field] \notin placeholder_values

\* producer_type_map of _create_profile_from_answers
create_producer_type_map ==
    (<<"I", "n", "d", "i", "v", "i", "d", "u", "a", "l">> :> <<"i", "n", "d", "i", "v", "i", "d", "u", "a", "l">>) @@ (<<"I", "n", "f", "o", "r", "m", "a", "l">> :> <<"i", "n", "f", "o", "r", "m", "a", "l">>)
    @@ (<<"F", "o", "r", "m", "a", "l", " ", "(", "C", "N", "P", "J", ")">> :> <<"f", "o", "r", "m", "a", "l">>) @@ (<<"G", "r", "u", "p", "o", " ", "I", "n", "f", "o", "r", "m", "a", "l">> :> <<"i", "n", "f", "o", "r", "m", "a", "l">>)
    @@ (<<"G", "r", "u", "p", "o", " ", "F", "o", "r", "m", "a", "l", " ", "(", "C", "N", "P", "J", ")">> :> <<"f", "o", "r", "m", "a", "l">>)

\* The fields of profile_data that ProducerProfileCreate declares (service.py
\* 580-693), for the default questions: existing is the profile read first,
\* profile_doc the profile read for its dap_caf_number
profile_data_from_answers(answers_docs, existing, profile_doc) ==
    LET text(question_id) ==
            str_of(answers_docs[question_id].answer, answers_docs[question_id].answer_type)
        dap_caf_number == Get(profile_doc, "dap_caf_number", <<>>)
        data ==
            [producer_type |->
                Get(create_producer_type_map, text("producer_type"), <<"i", "n", "d", "i", "v", "i", "d", "u", "a", "l">>),
             name |-> IF "name" \in DOMAIN answers_docs THEN strip(text("name"))
                      ELSE <<"N", "o", "m", "e", " ", "n", "ã", "o", " ", "i", "n", "f", "o", "r", "m", "a", "d", "o">>,
             address |-> IF "address" \in DOMAIN answers_docs THEN strip(text("address"))
                         ELSE <<"E", "n", "d", "e", "r", "e", "ç", "o", " ", "n", "ã", "o", " ", "i", "n", "f", "o", "r", "m", "a", "d", "o">>,
             city |-> IF "city" \in DOMAIN answers_docs THEN strip(text("city"))
                      ELSE <<"C", "i", "d", "a", "d", "e", " ", "n", "ã", "o", " ", "i", "n", "f", "o", "r", "m", "a", "d", "a">>,
             state |-> IF "state" \in DOMAIN answers_docs
                       THEN prefix(upper(strip(text("state"))), 2)
                       ELSE <<"X", "X">>]
        kept(field) ==
            IF /\ Get(existing, field, <<>>) # <<>>
               /\ (data[field] \in placeholder_values \/ data[field] = <<>>)
            THEN existing[field]
            ELSE data[field]
    IN  SetFields([field \in DOMAIN data |->
                      IF field = "producer_type" THEN data[field] ELSE kept(field)],
                  IF dap_caf_number # <<>> THEN [dap_caf_number |-> dap_caf_number]
                  ELSE <<>>)
-----------------------------------------------------------------------------
(* Chat assistant (ai_chat/service.py)                                      *)

\* The phrases _detect_intent looks for in the lowered text
missing_phrases ==
    {<<"o", " ", "q", "u", "e", " ", "f", "a", "l", "t", "a">>, <<"o", " ", "q", "u", "e", " ", "p", "r", "e", "c", "i", "s", "o">>, <<"p", "r", "ó", "x", "i", "m", "a", " ", "t", "a", "r", "e", "f", "a">>, <<"o", " ", "q", "u", "e", " ", "f", "a", "l", "t", "a", " ", "f", "a", "z", "e", "r">>}

\* confirmations of _handle_task_confirmation, also the second list of
\* _detect_intent
confirmations == {<<"s", "i", "m">>, <<"j", "á">>, <<"c", "o", "m", "p", "l", "e", "t", "e", "i">>, <<"c", "o", "n", "c", "l", "u", "í">>, <<"f", "e", "i", "t", "o">>, <<"p", "r", "o", "n", "t", "o">>}

\* AIChatService._detect_intent
detect_intent(text) ==
    LET text_lower == lower(text)
    IN  IF \E word \in missing_phrases : contains(text_lower, word) THEN "ask_what_missing"
        ELSE IF \E word \in confirmations : contains(text_lower, word) THEN "confirm_task"
        ELSE "general"

\* is_confirmed of _handle_task_confirmation (service.py 453-454)
is_confirmed(user_text) == \E conf \in confirmations : contains(lower(user_text), conf)

\* Variant of step 5 that takes the first pending task, blocking or not
priority_task_first_pending(task_list) ==
    LET pending_tasks == SelectSeq(task_list, LAMBDA r : r.status = "pending")
    IN  IF pending_tasks # <<>> THEN pending_tasks[1] ELSE NoDoc

\* Step 5 of generate_specialized_response: the task to explain, NoDoc for None
priority_task(task_list) ==
    LET pending_tasks == SelectSeq(task_list, LAMBDA r : r.status = "pending")
        blocking_tasks == SelectSeq(pending_tasks, LAMBDA r : r.blocking)
    IN  IF blocking_tasks # <<>> THEN blocking_tasks[1]
        ELSE IF pending_tasks # <<>> THEN pending_tasks[1]
        ELSE NoDoc

\* The branch generate_specialized_response takes (service.py 314-354)
chat_branch(intent, current_state, current_task_code, task) ==
    IF intent = "ask_what_missing"
       \/ (intent = "general" /\ current_task_code = NoneVal /\ task # NoDoc)
    THEN "explain"
    ELSE IF intent = "confirm_task" /\ current_task_code # NoneVal THEN "confirm"
    ELSE IF current_task_code # NoneVal /\ current_state = "explaining_task" THEN "continue"
    ELSE "general"

\* Variant of the state update that leaves the stored task code in place when
\* it is given none
update_conversation_state_keeping_code(conversations, conv_id, chat_state, current_task_code) ==
    [conversations EXCEPT ![conv_id] =
        IF current_task_code # NoneVal
        THEN SetFields(@, [chat_state |-> chat_state, current_task_code |-> current_task_code])
        ELSE SetFields(@, [chat_state |-> chat_state])]

\* AIChatService._update_conversation_state
update_conversation_state(conversations, conv_id, chat_state, current_task_code) ==
    [conversations EXCEPT ![conv_id] =
        SetFields(@, [chat_state |-> chat_state, current_task_code |-> current_task_code])]

\* Variant of the lookup that does not filter on the owner
find_conversation_of_any_user(conversations, user_id, conversation_id) ==
    IF conversation_id \in DOMAIN conversations THEN conversation_id ELSE 0

\* The conversation get_or_create_conversation finds: its _id, 0 when it creates one
find_conversation(conversations, user_id, conversation_id) ==
    IF conversation_id \in DOMAIN conversations
       /\ conversations[conversation_id].user_id = user_id
    THEN conversation_id
    ELSE 0

\* What each branch stores on the conversation
stored_after(conversations, conv_id, branch, task) ==
    IF branch = "explain" /\ task # NoDoc
    THEN update_conversation_state(conversations, conv_id, "explaining_task", task.task_code)
    ELSE IF branch = "confirm"
    THEN update_conversation_state(conversations, conv_id, "idle", NoneVal)
    ELSE conversations

mark_task_done(task_code) == [type |-> "mark_task_done", task_code |-> task_code]

\* The conversation_state and suggested_actions each branch returns
chat_reply(branch, task, current_task_code, text) ==
    IF branch = "explain"
    THEN IF task = NoDoc
         THEN [message_type |-> "info", suggested_actions |-> <<>>,
               current_task_code |-> NoneVal, chat_state |-> "idle"]
         ELSE [message_type |-> "info",
               suggested_actions |-> <<mark_task_done(task.task_code)>>,
               current_task_code |-> task.task_code, chat_state |-> "explaining_task"]
    ELSE IF branch = "confirm"
    THEN [message_type |-> IF is_confirmed(text) THEN "action" ELSE "info",
          suggested_actions |-> IF is_confirmed(text)
                                THEN <<mark_task_done(current_task_code)>> ELSE <<>>,
          current_task_code |-> NoneVal, chat_state |-> "idle"]
    ELSE IF branch = "continue"
    THEN [message_type |-> "info", suggested_actions |-> <<>>,
          current_task_code |-> current_task_code, chat_state |-> "explaining_task"]
    ELSE [message_type |-> "info", suggested_actions |-> <<>>,
          current_task_code |-> NoneVal, chat_state |-> "idle"]

\* AIChatService._create_error_response
error_reply ==
    [message_type |-> "error", suggested_actions |-> <<>>,
     current_task_code |-> NoneVal, chat_state |-> "error"]

-----------------------------------------------------------------------------
(* Chat state machine (ai_chat/state_machine.py)                           *)

ChatStates ==
    {"idle", "explaining_task", "waiting_confirmation", "task_completed", "error"}

valid_transitions ==
    [idle |-> {"explaining_task", "error"},
     explaining_task |-> {"waiting_confirmation", "task_completed", "idle", "error"},
     waiting_confirmation |-> {"task_completed", "explaining_task", "idle", "error"},
     task_completed |-> {"idle", "explaining_task", "error"},
     error |-> {"idle", "explaining_task"}]

\* Variant of the check that also accepts staying in the same state
can_transition_from_or_stay(current_state, target_state) ==
    \/ target_state = current_state
    \/ target_state \in Get(valid_transitions, current_state, {})

\* ChatStateMachine.can_transition_from
can_transition_from(current_state, target_state) ==
    target_state \in Get(valid_transitions, current_state, {})

\* ChatStateMachine.get_initial_state
get_initial_state == "idle"

-----------------------------------------------------------------------------
(* Coroutines.  procs maps each coroutine to its locals; pc names the round *)
(* trip it issues next.  A specification with one request coroutine is a   *)
(* client that awaits each response before it sends the next request; with  *)
(* two, two requests of the user are in flight at once.                     *)

Idle == [pc |-> "idle"]

\* The coroutines asyncio.create_task starts, one for every PUT
\* /producer-profile that leaves a complete profile: a behaviour starts no
\* more than these.  One that is idle is not started yet, and once it has
\* returned it has ended.
Background == {"g1", "g2"}

Ended == [pc |-> "ended"]

\* No request is in flight and no background task is running
AllIdle == \A p \in DOMAIN procs : procs[p].pc \in {"idle", "ended"}

Drop(doc, fields) == [f \in (DOMAIN doc) \ fields |-> doc[f]]

\* The locals that only steer a coroutine
ControlFields ==
    {"pc", "call", "i", "guides", "text", "current_state", "branch", "task", "answer_type"}

\* What a completed call leaves in resp
response(local) == Drop(local, ControlFields)

\* A coroutine moves on with new locals; at pc "return" it ends, and a request
\* leaves its arguments and result in resp (the background task returns to
\* nobody)
Continue(p, local) ==
    IF local.pc = "return"
    THEN /\ procs' = [procs EXCEPT ![p] = IF p \in Background THEN Ended ELSE Idle]
         /\ resp' = IF p \in Background THEN resp ELSE response(local)
    ELSE /\ procs' = [procs EXCEPT ![p] = local]
         /\ UNCHANGED resp

\* The second user has no producer profile and no task row
user_of(local) == Get(local, "user_id", "u1")

profile_of(user_id) == IF user_id = "u1" THEN profile ELSE NoDoc

tasks_of(user_id) == IF user_id = "u1" THEN tasks ELSE <<>>

\* time passes: utc_now() returns a later instant
Tick ==
    /\ now < MaxTime
    /\ now' = now + 1
    /\ UNCHANGED <<tasks, profile, answers, cache, convs, resp, procs>>

-----------------------------------------------------------------------------
(* FormalizationService.regenerate_tasks and the repository's               *)
(* sync_user_tasks, one round trip at a time                                *)

SyncLocals == {"required", "existing_tasks", "sync_now", "i"}

\* The list get_tasks returns: the user's rows whose code the catalog knows
tasks_response(rows) ==
    SelectSeq(rows, LAMBDA r : r.task_code \in DOMAIN Catalog)

\* The least element of a set of positions
first_in(S) == CHOOSE i \in S : \A j \in S : i <= j

\* The first iteration from i on of the loop over the snapshot that issues an
\* update_one, 0 when there is none (the other iterations only look up the
\* requirement id)
next_update(existing_tasks, required_set, i) ==
    LET writes == {k \in i..Len(existing_tasks) :
                      existing_task_update(existing_tasks[k], required_set, 0) # NoDoc}
    IN  IF writes = {} THEN 0 ELSE first_in(writes)

\* Variant of the loop over the required codes that ends at the first code
\* absent from the catalog (break for the continue of repo.py 210)
next_insert_until_unknown(required_task_codes, existing_task_codes, i) ==
    LET unknown == {k \in i..Len(required_task_codes) :
                       /\ required_task_codes[k] \notin existing_task_codes
                       /\ required_task_codes[k] \notin DOMAIN Catalog}
        last == IF unknown = {} THEN Len(required_task_codes) ELSE first_in(unknown) - 1
        writes == {k \in i..last : required_task_codes[k] \notin existing_task_codes}
    IN  IF writes = {} THEN 0 ELSE first_in(writes)

\* The first iteration from i on of the loop over the required codes that
\* issues an insert_one, 0 when there is none
next_insert(required_task_codes, existing_task_codes, i) ==
    LET writes == {k \in i..Len(required_task_codes) :
                      /\ required_task_codes[k] \notin existing_task_codes
                      /\ required_task_codes[k] \in DOMAIN Catalog}
    IN  IF writes = {} THEN 0 ELSE first_in(writes)

\* Where a coroutine continues once sync_user_tasks has returned, or
\* regenerate_tasks has returned without a profile
after_sync(local) ==
    IF local.call = "get_tasks"
    THEN SetFields(Drop(local, SyncLocals), [pc |-> "list"])
    ELSE IF local.call = "get_or_calculate_status"
    THEN SetFields(Drop(local, SyncLocals), [pc |-> "status_tasks"])
    ELSE IF local.call = "update_task_status"
    THEN SetFields(Drop(local, SyncLocals), [pc |-> "invalidate"])
    ELSE IF local.call = "regenerate_tasks"
    THEN [pc |-> "return", op |-> local.op,
          synced |-> "required" \in DOMAIN local,
          required |-> Get(local, "required", <<>>)]
    ELSE SetFields(Drop(local, {"i"}), [pc |-> "return"])

\* The loop over required codes (repo.py 200-224)
to_create(local) ==
    LET existing_task_codes ==
            {local.existing_tasks[k].task_code : k \in DOMAIN local.existing_tasks}
        i == next_insert(local.required, existing_task_codes, 1)
    IN  IF i = 0 THEN after_sync(local)
        ELSE SetFields(local, [pc |-> "sync_create", i |-> i])

\* The loop over the snapshot (repo.py 157-197)
to_existing(local) ==
    LET i == next_update(local.existing_tasks, Range(local.required), 1)
    IN  IF i = 0 THEN to_create(local)
        ELSE SetFields(local, [pc |-> "sync_existing", i |-> i])

\* regenerate_tasks reads the profile and computes the required codes
\* (service.py 229-237); without a valid profile it returns.  The document
\* of users that get_profile_by_user reads for the cpf is written at login
\* only: that read is no step of its own.
RegenerateRead(p) ==
    LET local == procs[p]
        producer_profile == get_profile_by_user(profile_of(user_of(local)),
                                                Get(users, user_of(local), NoDoc))
    IN  /\ local.pc = "regenerate"
        /\ Continue(p, IF producer_profile = NoDoc
                       THEN after_sync(local)
                       ELSE SetFields(local,
                               [pc |-> "sync_start",
                                required |-> required_for_profile(producer_profile)]))
        /\ UNCHANGED <<tasks, profile, answers, cache, convs, now>>

\* sync_user_tasks takes utc_now() and reads the catalog (repo.py 143-147)
SyncStart(p) ==
    /\ procs[p].pc = "sync_start"
    /\ procs' = [procs EXCEPT ![p] = SetFields(@, [pc |-> "sync_read", sync_now |-> now])]
    /\ UNCHANGED <<tasks, profile, answers, cache, convs, now, resp>>

\* sync_user_tasks reads the user's rows (repo.py 149-154)
SyncRead(p) ==
    /\ procs[p].pc = "sync_read"
    /\ Continue(p, to_existing(SetFields(procs[p],
                                   [existing_tasks |-> get_user_tasks(tasks)])))
    /\ UNCHANGED <<tasks, profile, answers, cache, convs, now>>

\* An update_one of the loop over the snapshot (repo.py 157-197)
SyncExisting(p) ==
    LET local == procs[p]
        existing_task == local.existing_tasks[local.i]
        required_set == Range(local.required)
        i == next_update(local.existing_tasks, required_set, local.i + 1)
    IN  /\ local.pc = "sync_existing"
        /\ tasks' = update_one_task(tasks, existing_task.id,
                        existing_task_update(existing_task, required_set, local.sync_now))
        /\ Continue(p, IF i # 0 THEN [local EXCEPT !.i = i] ELSE to_create(local))
        /\ UNCHANGED <<profile, answers, cache, convs, now>>

\* An insert_one of the loop over the required codes (repo.py 200-224)
SyncCreate(p) ==
    LET local == procs[p]
        existing_task_codes ==
            {local.existing_tasks[k].task_code : k \in DOMAIN local.existing_tasks}
        i == next_insert(local.required, existing_task_codes, local.i + 1)
    IN  /\ local.pc = "sync_create"
        /\ tasks' = Append(tasks, new_task_doc(local.required[local.i], local.sync_now))
        /\ Continue(p, IF i # 0 THEN [local EXCEPT !.i = i] ELSE after_sync(local))
        /\ UNCHANGED <<profile, answers, cache, convs, now>>

\* POST /formalization/tasks/regenerate arrives
RegenerateTasks(p) ==
    /\ procs[p].pc = "idle"
    /\ procs' = [procs EXCEPT ![p] =
          [pc |-> "regenerate", op |-> "regenerate_tasks", call |-> "regenerate_tasks"]]
    /\ UNCHANGED <<tasks, profile, answers, cache, convs, now, resp>>

-----------------------------------------------------------------------------
(* FormalizationService.get_tasks                                           *)

\* GET /formalization/tasks arrives
GetTasks(p) ==
    /\ procs[p].pc = "idle"
    /\ procs' = [procs EXCEPT ![p] =
          [pc |-> "regenerate", op |-> "get_tasks", call |-> "get_tasks"]]
    /\ UNCHANGED <<tasks, profile, answers, cache, convs, now, resp>>

\* The requirement ids generate_guides_for_user generates a guide for: those
\* of the listed tasks that an onboarding question carries
\* (ai_formalization/service.py 343-350, 61-64)
guide_requirements(task_list) ==
    SelectSeq([k \in DOMAIN task_list |-> task_list[k].requirement_id],
              LAMBDA requirement_id :
                  /\ requirement_id # NoneVal
                  /\ \E q \in Questions : q.requirement_id = requirement_id)

\* generate_guide calls get_or_calculate_status (ai_formalization/service.py 97-104)
next_guide(local, guides) ==
    IF guides = 0 THEN [pc |-> "return", op |-> local.op]
    ELSE [pc |-> "status_cache", op |-> local.op, call |-> "get_or_calculate_status",
          guides |-> guides]

\* generate_specialized_response once get_tasks has returned: the priority
\* task, the intent and the branch (ai_chat/service.py 299-354); the explain
\* and confirm branches go on to store the conversation state
chat_after_tasks(local, task_list) ==
    LET task == priority_task(task_list)
        intent == detect_intent(local.text)
        branch == chat_branch(intent, local.current_state, local.active_task_code, task)
        stores == (branch = "explain" /\ task # NoDoc) \/ branch = "confirm"
    IN  SetFields(SetFields(local, chat_reply(branch, task, local.active_task_code, local.text)),
                  [pc |-> IF stores THEN "chat_store" ELSE "return",
                   intent |-> intent, branch |-> branch, task |-> task])

\* Where a coroutine continues once get_tasks has returned task_list
after_get_tasks(local, task_list) ==
    IF local.op = "chat" THEN chat_after_tasks(local, task_list)
    ELSE IF local.op = "generate_guides"
    THEN IF "guides" \in DOMAIN local
         THEN next_guide(local, local.guides - 1)
         ELSE next_guide(local, Len(guide_requirements(task_list)))
    ELSE [pc |-> "return", op |-> local.op]

\* get_tasks reads the rows it returns (service.py 181-215)
ListTasks(p) ==
    LET local == procs[p]
        task_list == tasks_response(get_user_tasks(tasks_of(user_of(local))))
    IN  /\ local.pc = "list"
        /\ Continue(p, after_get_tasks(local, task_list))
        /\ UNCHANGED <<tasks, profile, answers, cache, convs, now>>

-----------------------------------------------------------------------------
(* FormalizationService.get_or_calculate_status                             *)

\* GET /formalization/status arrives
GetOrCalculateStatus(p) ==
    /\ procs[p].pc = "idle"
    /\ procs' = [procs EXCEPT ![p] =
          [pc |-> "status_cache", op |-> "get_or_calculate_status",
           call |-> "get_or_calculate_status"]]
    /\ UNCHANGED <<tasks, profile, answers, cache, convs, now, resp>>

\* The cached status document is read (service.py 56-59)
StatusReadCache(p) ==
    /\ procs[p].pc = "status_cache"
    /\ procs' = [procs EXCEPT ![p] =
          SetFields(@, [pc |-> "status_answers", cached_doc |-> cache])]
    /\ UNCHANGED <<tasks, profile, answers, cache, convs, now, resp>>

\* get_all_answers (service.py 62-68)
StatusReadAnswers(p) ==
    /\ procs[p].pc = "status_answers"
    /\ procs' = [procs EXCEPT ![p] =
          SetFields(@, [pc |-> "status_profile", answers_dict |-> answers])]
    /\ UNCHANGED <<tasks, profile, answers, cache, convs, now, resp>>

\* The profile document is read (service.py 72)
StatusReadProfile(p) ==
    /\ procs[p].pc = "status_profile"
    /\ procs' = [procs EXCEPT ![p] =
          SetFields(@, [pc |-> "status_diagnose", producer_profile |-> profile])]
    /\ UNCHANGED <<tasks, profile, answers, cache, convs, now, resp>>

\* The coroutine resumes: the diagnosis is computed and utc_now() taken
\* (service.py 73-113); the upsert of the status document follows when there
\* was no cached one or the diagnosis changed.  diagnosed_at is the value the
\* response will carry (service.py 154-155).
StatusDiagnose(p) ==
    LET local == procs[p]
        responses == build_responses(answer_values(local.answers_dict),
                                     local.producer_profile)
        diagnosis == calculate_eligibility(responses)
        cached_doc == local.cached_doc
        write == cached_doc = NoDoc \/ has_diagnosis_changed(cached_doc, diagnosis)
    IN  /\ local.pc = "status_diagnose"
        /\ procs' = [procs EXCEPT ![p] =
              [pc |-> IF write THEN "status_upsert" ELSE "regenerate",
               op |-> local.op, call |-> local.call,
               responses |-> responses, diagnosis |-> diagnosis, now |-> now,
               diagnosed_at |-> IF cached_doc # NoDoc
                                THEN Get(cached_doc, "diagnosed_at", now) ELSE now]
              @@ Drop(local, {"pc", "cached_doc", "answers_dict", "producer_profile"})]
        /\ UNCHANGED <<tasks, profile, answers, cache, convs, now, resp>>

\* status_collection.update_one($set status_doc, upsert=True) (service.py 127-132)
StatusUpsert(p) ==
    /\ procs[p].pc = "status_upsert"
    /\ cache' = SetFields(cache, status_doc(procs[p].diagnosis, procs[p].now))
    /\ procs' = [procs EXCEPT ![p].pc = "regenerate"]
    /\ UNCHANGED <<tasks, profile, answers, convs, now, resp>>

\* The response of get_or_calculate_status (service.py 157-166)
status_response(local, user_tasks) ==
    [op |-> local.op,
     responses |-> local.responses,
     is_eligible |-> local.diagnosis.is_eligible,
     eligibility_level |-> local.diagnosis.eligibility_level,
     score |-> progress_score(user_tasks),
     requirements_met |-> local.diagnosis.requirements_met,
     requirements_missing |-> local.diagnosis.requirements_missing,
     recommendations |-> local.diagnosis.recommendations,
     diagnosed_at |-> local.diagnosed_at,
     now |-> local.now]

\* Where a coroutine continues once get_or_calculate_status has returned:
\* generate_guide goes on to read the tasks for its prompt
\* (ai_formalization/service.py 183, 282-284)
after_status(local, user_tasks) ==
    IF local.op = "generate_guides"
    THEN [pc |-> "regenerate", op |-> local.op, call |-> "get_tasks",
          guides |-> local.guides]
    ELSE SetFields(status_response(local, user_tasks), [pc |-> "return"])

\* get_user_tasks and the response (service.py 138-166)
StatusReturn(p) ==
    /\ procs[p].pc = "status_tasks"
    /\ Continue(p, after_status(procs[p], get_user_tasks(tasks)))
    /\ UNCHANGED <<tasks, profile, answers, cache, convs, now>>

-----------------------------------------------------------------------------
(* FormalizationService.update_task_status                                  *)

\* PATCH /formalization/tasks/{task_code} arrives; an invalid status raises
\* ValueError before any round trip.  The repository takes utc_now() before
\* it awaits its find_one_and_update (repo.py 241).
UpdateTaskStatus(p, task_code, status) ==
    /\ procs[p].pc = "idle"
    /\ Continue(p, IF status \notin Statuses
                   THEN [pc |-> "return", op |-> "update_task_status",
                         task_code |-> task_code, status |-> status,
                         error |-> "ValueError"]
                   ELSE [pc |-> "update_row", op |-> "update_task_status",
                         call |-> "update_task_status",
                         task_code |-> task_code, status |-> status,
                         update_now |-> now])
    /\ UNCHANGED <<tasks, profile, answers, cache, convs, now>>

\* repo.update_task_status: find_one_and_update on the row (repo.py 226-257)
UpdateRow(p) ==
    LET local == procs[p]
        found == find_task(tasks, local.task_code) # 0
    IN  /\ local.pc = "update_row"
        /\ tasks' = repo_update_task_status(tasks, local.task_code, local.status,
                                            local.update_now)
        /\ Continue(p, SetFields(Drop(local, {"update_now"}),
                 [pc |-> IF local.call = "repo_update_task_status" THEN "return"
                         ELSE IF local.status = "done" /\ found
                         THEN IF local.task_code \in DOMAIN task_mapping
                              THEN "complete_profile" ELSE "regenerate"
                         ELSE "invalidate",
                  found |-> found]))
        /\ UNCHANGED <<profile, answers, cache, convs, now>>

\* _update_profile_from_task_completion: the profile update
CompleteProfile(p) ==
    /\ procs[p].pc = "complete_profile"
    /\ profile' = complete_profile(profile, procs[p].task_code)
    /\ procs' = [procs EXCEPT ![p] = SetFields(@, [pc |-> "complete_answer", since |-> now])]
    /\ UNCHANGED <<tasks, answers, cache, convs, now, resp>>

\* _update_profile_from_task_completion: the answer upsert, with the
\* utc_now() taken since the profile update returned (service.py 331)
CompleteAnswer(p) ==
    /\ procs[p].pc = "complete_answer"
    /\ \E t \in procs[p].since..now :
          answers' = complete_answer(answers, procs[p].task_code, t)
    /\ procs' = [procs EXCEPT ![p] = SetFields(Drop(@, {"since"}), [pc |-> "regenerate"])]
    /\ UNCHANGED <<tasks, profile, cache, convs, now, resp>>

\* Variant that drops the cached document only when a task row was updated
invalidates_cache_when_found(status, found) == found

\* Whether update_task_status drops the cached status document (service.py 272-274)
invalidates_cache(status, found) == TRUE

\* update_task_status deletes the cached status and returns (service.py 272-276)
Invalidate(p) ==
    LET local == procs[p]
    IN  /\ local.pc = "invalidate"
        /\ cache' = IF invalidates_cache(local.status, local.found) THEN NoDoc ELSE cache
        /\ Continue(p, [local EXCEPT !.pc = "return"])
        /\ UNCHANGED <<tasks, profile, answers, convs, now>>

-----------------------------------------------------------------------------
(* OnboardingService.get_status, also called by save_answer                 *)

\* Where a coroutine continues once get_status has returned
after_onboarding_status(local) ==
    IF local.call = "update_profile_status"
    THEN [local EXCEPT !.pc = "answer_status_upsert"]
    ELSE IF local.call = "save_answer"
    THEN [pc |-> IF local.onboarding_status.status = "completed"
                 THEN "create_answers" ELSE "return",
          op |-> local.op, question_id |-> local.question_id, answer |-> local.answer]
    ELSE [pc |-> "return", op |-> local.op, onboarding_status |-> local.onboarding_status]

\* GET /onboarding/status arrives
GetOnboardingStatus(p) ==
    /\ procs[p].pc = "idle"
    /\ procs' = [procs EXCEPT ![p] =
          [pc |-> "onboarding_answers", op |-> "get_status", call |-> "get_status"]]
    /\ UNCHANGED <<tasks, profile, answers, cache, convs, now, resp>>

\* get_status reads the answered question ids and computes the status
\* (service.py 273-292); a status that is not completed is returned
OnboardingReadAnswers(p) ==
    LET status == onboarding_status(DOMAIN answers)
        local == SetFields(procs[p], [onboarding_status |-> [status |-> status]])
    IN  /\ procs[p].pc = "onboarding_answers"
        /\ Continue(p, IF status = "completed"
                       THEN [local EXCEPT !.pc = "onboarding_latest"]
                       ELSE after_onboarding_status(local))
        /\ UNCHANGED <<tasks, profile, answers, cache, convs, now>>

\* The latest answered_at is the completion date (service.py 316-320)
OnboardingReadLatest(p) ==
    /\ procs[p].pc = "onboarding_latest"
    /\ procs' = [procs EXCEPT ![p] =
          SetFields(@, [pc |-> "onboarding_profile",
                        onboarding_status |->
                            SetFields(@.onboarding_status, latest_answered_at(answers))])]
    /\ UNCHANGED <<tasks, profile, answers, cache, convs, now, resp>>

\* get_status looks for the profile of a completed onboarding (service.py 324)
OnboardingReadProfile(p) ==
    /\ procs[p].pc = "onboarding_profile"
    /\ Continue(p, IF profile # NoDoc THEN after_onboarding_status(procs[p])
                   ELSE [procs[p] EXCEPT !.pc = "ensure_profile"])
    /\ UNCHANGED <<tasks, profile, answers, cache, convs, now>>

\* _ensure_profile_exists looks for the profile again (service.py 724)
EnsureReadProfile(p) ==
    /\ procs[p].pc = "ensure_profile"
    /\ Continue(p, IF profile # NoDoc THEN after_onboarding_status(procs[p])
                   ELSE [procs[p] EXCEPT !.pc = "ensure_answers"])
    /\ UNCHANGED <<tasks, profile, answers, cache, convs, now>>

\* _ensure_profile_exists reads the answered ids (service.py 730-746)
EnsureReadAnswers(p) ==
    LET status == ensure_status(DOMAIN answers)
    IN  /\ procs[p].pc = "ensure_answers"
        /\ procs' = [procs EXCEPT ![p] =
              SetFields(@, [pc |-> IF status = "completed" THEN "ensure_latest"
                                   ELSE "ensure_insert",
                            ensure |-> [status |-> status]])]
        /\ UNCHANGED <<tasks, profile, answers, cache, convs, now, resp>>

\* _ensure_profile_exists reads the latest answered_at (service.py 741-743)
EnsureReadLatest(p) ==
    /\ procs[p].pc = "ensure_latest"
    /\ procs' = [procs EXCEPT ![p] =
          SetFields(@, [pc |-> "ensure_insert",
                        ensure |-> SetFields(@.ensure, latest_answered_at(answers))])]
    /\ UNCHANGED <<tasks, profile, answers, cache, convs, now, resp>>

\* _ensure_profile_exists inserts the profile (service.py 748-754).  The
\* insert of a second profile of the user fails on the unique index of
\* user_id, and the duplicate key error is not raised further.
EnsureInsert(p) ==
    /\ procs[p].pc = "ensure_insert"
    /\ profile' = IF profile = NoDoc THEN ensure_profile_doc(procs[p].ensure) ELSE profile
    /\ Continue(p, after_onboarding_status(Drop(procs[p], {"ensure"})))
    /\ UNCHANGED <<tasks, answers, cache, convs, now>>

-----------------------------------------------------------------------------
(* OnboardingService.save_answer                                            *)

\* POST /onboarding/answer arrives: the question is looked up and the answer
\* checked (service.py 205-230)
SaveAnswer(p, question_id, answer, answer_type) ==
    LET question == get_question_by_id(question_id)
    IN  /\ procs[p].pc = "idle"
        /\ Continue(p, IF question = NoDoc \/ ~answer_is_valid(question, answer, answer_type)
                       THEN [pc |-> "return", op |-> "save_answer",
                             question_id |-> question_id, error |-> "ValidationError"]
                       ELSE [pc |-> "answer_upsert", op |-> "save_answer",
                             question_id |-> question_id, answer |-> answer,
                             answer_type |-> answer_type, since |-> now])
        /\ UNCHANGED <<tasks, profile, answers, cache, convs, now>>

\* The answer is upserted (service.py 233-246), with the utc_now() taken
\* since the question was looked up (service.py 212)
AnswerUpsert(p) ==
    LET local == procs[p]
    IN  /\ local.pc = "answer_upsert"
        /\ \E t \in local.since..now :
              answers' = SetFields(answers,
                            local.question_id :> answer_doc(local.answer, local.answer_type, t))
        /\ procs' = [procs EXCEPT ![p] = SetFields(Drop(@, {"since"}), [pc |-> "answer_profile"])]
        /\ UNCHANGED <<tasks, profile, cache, convs, now, resp>>

\* _update_profile_from_answer looks for the profile (service.py 402)
AnswerReadProfile(p) ==
    /\ procs[p].pc = "answer_profile"
    /\ procs' = [procs EXCEPT ![p].pc =
          IF profile = NoDoc THEN "answer_insert" ELSE "answer_update"]
    /\ UNCHANGED <<tasks, profile, answers, cache, convs, now, resp>>

\* It found none and inserts a minimal one (service.py 403-409).  When the
\* user has a profile by now the insert fails on the unique index of user_id:
\* _update_profile_from_answer logs the error and returns without its update.
AnswerInsertProfile(p) ==
    /\ procs[p].pc = "answer_insert"
    /\ profile' = IF profile = NoDoc THEN [user_id |-> "u1"] ELSE profile
    /\ procs' = [procs EXCEPT ![p] =
          IF profile = NoDoc THEN [@ EXCEPT !.pc = "answer_update"]
          ELSE SetFields(@, [pc |-> "onboarding_answers", call |-> "update_profile_status"])]
    /\ UNCHANGED <<tasks, answers, cache, convs, now, resp>>

\* update_one($set update_doc) on the profile (service.py 516-520), then
\* _update_profile_status calls get_status (service.py 532)
AnswerUpdateProfile(p) ==
    LET local == procs[p]
    IN  /\ local.pc = "answer_update"
        /\ profile' = IF profile = NoDoc THEN NoDoc
                      ELSE SetFields(profile,
                              update_doc_from_answer(local.question_id, local.answer,
                                                     local.answer_type))
        /\ procs' = [procs EXCEPT ![p] =
              SetFields(@, [pc |-> "onboarding_answers", call |-> "update_profile_status"])]
        /\ UNCHANGED <<tasks, answers, cache, convs, now, resp>>

\* _update_profile_status upserts the status (service.py 543-553); save_answer
\* then calls get_status itself (service.py 255)
AnswerUpsertStatus(p) ==
    /\ procs[p].pc = "answer_status_upsert"
    /\ profile' = update_profile_status(profile, procs[p].onboarding_status)
    /\ procs' = [procs EXCEPT ![p] =
          SetFields(Drop(@, {"onboarding_status"}),
                    [pc |-> "onboarding_answers", call |-> "save_answer"])]
    /\ UNCHANGED <<tasks, answers, cache, convs, now, resp>>

\* What save_answer returns, whatever _create_profile_from_answers did
create_return(local) ==
    [pc |-> "return", op |-> local.op, question_id |-> local.question_id,
     answer |-> local.answer]

\* _create_profile_from_answers reads the answers (service.py 559)
CreateReadAnswers(p) ==
    /\ procs[p].pc = "create_answers"
    /\ procs' = [procs EXCEPT ![p] =
          SetFields(@, [pc |-> "create_profile", answers_docs |-> answers])]
    /\ UNCHANGED <<tasks, profile, answers, cache, convs, now, resp>>

\* It reads the profile and returns when that has every required field, or
\* when there is no answer to producer_type (service.py 563-591)
CreateReadProfile(p) ==
    LET local == procs[p]
    IN  /\ local.pc = "create_profile"
        /\ Continue(p, IF \/ (profile # NoDoc /\ has_all_required(profile))
                          \/ "producer_type" \notin DOMAIN local.answers_docs
                       THEN create_return(local)
                       ELSE SetFields(local, [pc |-> "create_dap_caf",
                                              existing_profile |-> profile]))
        /\ UNCHANGED <<tasks, profile, answers, cache, convs, now>>

\* It reads the profile once more for the dap_caf_number and builds
\* ProducerProfileCreate (service.py 596-707); data the schema rejects end
\* the call, the error logged
CreateReadDapCaf(p) ==
    LET local == procs[p]
        profile_data == profile_data_from_answers(local.answers_docs,
                                                  local.existing_profile, profile)
    IN  /\ local.pc = "create_dap_caf"
        /\ Continue(p, IF profile_is_valid(profile_data)
                       THEN SetFields(create_return(local),
                               [pc |-> "create_upsert", profile_data |-> profile_data])
                       ELSE create_return(local))
        /\ UNCHANGED <<tasks, profile, answers, cache, convs, now>>

\* producer_service.upsert_profile(profile_create) (service.py 708)
CreateUpsert(p) ==
    /\ procs[p].pc = "create_upsert"
    /\ profile' = upsert_profile(profile, procs[p].profile_data)
    /\ Continue(p, create_return(procs[p]))
    /\ UNCHANGED <<tasks, answers, cache, convs, now>>

-----------------------------------------------------------------------------
(* POST /onboarding/update-profile-field                                    *)

\* The request arrives; a field other than dap_caf_number raises
\* ValidationError (router.py 176-182)
UpdateProfileField(p, field, value) ==
    /\ procs[p].pc = "idle"
    /\ Continue(p, IF field = "dap_caf_number"
                   THEN [pc |-> "field_upsert", op |-> "update_profile_field",
                         field |-> field, value |-> strip(value)]
                   ELSE [pc |-> "return", op |-> "update_profile_field",
                         field |-> field, error |-> "ValidationError"])
    /\ UNCHANGED <<tasks, profile, answers, cache, convs, now>>

\* update_one($set dap_caf_number, $setOnInsert user_id, upsert=True)
\* (router.py 184-194)
ProfileFieldUpsert(p) ==
    LET local == procs[p]
        existing == IF profile = NoDoc THEN [user_id |-> "u1"] ELSE profile
    IN  /\ local.pc = "field_upsert"
        /\ profile' = SetFields(existing, [dap_caf_number |-> local.value])
        /\ Continue(p, [local EXCEPT !.pc = "return"])
        /\ UNCHANGED <<tasks, answers, cache, convs, now>>

-----------------------------------------------------------------------------
(* AIChatService: generate_specialized_response and generate_response       *)

\* usable: the request carries text, or audio that transcribes to text
ChatMessages ==
    {[usable |-> FALSE, text |-> <<>>]}
    \cup {[usable |-> TRUE, text |-> t] : t \in {<<"O", "i">>, <<"O", " ", "q", "u", "e", " ", "f", "a", "l", "t", "a", "?">>, <<"S", "i", "m">>}}

\* POST /ai/chat/message/v2 arrives (conversation_id 0: none given); without
\* usable text the error response is returned at once (service.py 266-284)
ChatMessage(p, user_id, conversation_id, message) ==
    /\ procs[p].pc = "idle"
    /\ Continue(p, IF ~message.usable
                   THEN SetFields(error_reply,
                           [pc |-> "return", op |-> "chat", user_id |-> user_id,
                            requested_id |-> conversation_id])
                   ELSE [pc |-> IF conversation_id # 0 THEN "chat_find" ELSE "chat_insert",
                         op |-> "chat", call |-> "get_tasks", user_id |-> user_id,
                         requested_id |-> conversation_id, text |-> message.text])
    /\ UNCHANGED <<tasks, profile, answers, cache, convs, now>>

\* POST /ai/chat/message arrives: generate_response gets or creates the
\* conversation like generate_specialized_response (service.py 151)
GenerateResponse(p, user_id, conversation_id) ==
    /\ procs[p].pc = "idle"
    /\ procs' = [procs EXCEPT ![p] =
          [pc |-> IF conversation_id # 0 THEN "chat_find" ELSE "chat_insert",
           op |-> "generate_response", call |-> "generate_response",
           user_id |-> user_id, requested_id |-> conversation_id]]
    /\ UNCHANGED <<tasks, profile, answers, cache, convs, now, resp>>

\* The conversation as the caller of get_or_create_conversation holds it:
\* generate_specialized_response reads its state and goes on to get_tasks
\* (service.py 286-299), generate_response to its update of updated_at
with_conversation(local, conv_id, conversation, existing) ==
    IF local.op = "generate_response"
    THEN SetFields(local, [pc |-> "response_store", conversation_id |-> conv_id,
                           existing |-> existing])
    ELSE SetFields(local,
            [pc |-> "regenerate", conversation_id |-> conv_id, existing |-> existing,
             current_state |-> Get(conversation, "chat_state", "idle"),
             active_task_code |-> Get(conversation, "current_task_code", NoneVal)])

\* get_or_create_conversation looks for the conversation of the user (service.py 56-61)
ChatFind(p) ==
    LET local == procs[p]
        found == find_conversation(convs, local.user_id, local.requested_id)
    IN  /\ local.pc = "chat_find"
        /\ procs' = [procs EXCEPT ![p] =
              IF found # 0 THEN with_conversation(local, found, convs[found], TRUE)
              ELSE [local EXCEPT !.pc = "chat_insert"]]
        /\ UNCHANGED <<tasks, profile, answers, cache, convs, now, resp>>

\* get_or_create_conversation inserts a conversation of the user (service.py 66-75)
ChatInsert(p) ==
    LET local == procs[p]
        conv_doc == [user_id |-> local.user_id]
    IN  /\ local.pc = "chat_insert"
        /\ Len(convs) < MaxConversations
        /\ convs' = Append(convs, conv_doc)
        /\ procs' = [procs EXCEPT ![p] =
              with_conversation(local, Len(convs) + 1, conv_doc, FALSE)]
        /\ UNCHANGED <<tasks, profile, answers, cache, now, resp>>

\* _update_conversation_state, then the response (service.py 411, 471)
ChatStore(p) ==
    LET local == procs[p]
    IN  /\ local.pc = "chat_store"
        /\ convs' = stored_after(convs, local.conversation_id, local.branch, local.task)
        /\ Continue(p, [local EXCEPT !.pc = "return"])
        /\ UNCHANGED <<tasks, profile, answers, cache, now>>

\* generate_response stores the two messages and sets updated_at on the
\* conversation (service.py 228-248): no field of the conversation that the
\* guided chat reads changes
ResponseStore(p) ==
    /\ procs[p].pc = "response_store"
    /\ Continue(p, [procs[p] EXCEPT !.pc = "return"])
    /\ UNCHANGED <<tasks, profile, answers, cache, convs, now>>

-----------------------------------------------------------------------------
(* PUT /producer-profile and its background guide generation                *)

\* The bodies ProducerProfileCreate accepts, one of each producer type
ProfileInputs ==
    {[producer_type |-> <<"i", "n", "d", "i", "v", "i", "d", "u", "a", "l">>, name |-> <<"A", "n", "a">>, address |-> <<"R", "u", "a", " ", "1">>,
      city |-> <<"I", "t", "u">>, state |-> <<"S", "P">>],
     [producer_type |-> <<"i", "n", "f", "o", "r", "m", "a", "l">>, name |-> <<"G", "r", "u", "p", "o">>, address |-> <<"R", "u", "a", " ", "1">>,
      city |-> <<"I", "t", "u">>, state |-> <<"S", "P">>],
     [producer_type |-> <<"f", "o", "r", "m", "a", "l">>, name |-> <<"C", "o", "o", "p">>, address |-> <<"R", "u", "a", " ", "2">>,
      city |-> <<"I", "t", "u">>, state |-> <<"S", "P">>, cnpj |-> <<"1", "2", "3", "4", "5", "6", "7", "8", "0", "0", "0", "1", "9", "5">>]}

\* is_complete of the route (router.py 86-90): the fields that are truthy
is_complete(profile_model) ==
    /\ "producer_type" \in DOMAIN profile_model
    /\ \A f \in {"name", "address", "city", "state"} :
          f \in DOMAIN profile_model /\ profile_model[f] # <<>>

\* PUT /producer-profile: one find_one_and_update, then the response; the
\* guide generation is started as a task of its own when the profile is
\* complete (router.py 77-100), whatever else is in flight, as long as the
\* behaviour has a background coroutine left to start
UpsertProfile(data) ==
    LET doc == upsert_profile(profile, data)
        profile_model == IF profile_is_valid(doc) THEN ProducerProfileInDB(doc) ELSE NoDoc
        starts == profile_model # NoDoc /\ is_complete(profile_model)
        free == {g \in Background \cap DOMAIN procs : procs[g].pc = "idle"}
    IN  /\ starts => free # {}
        /\ profile' = doc
        /\ resp' = [op |-> "upsert_profile"]
        /\ procs' = IF starts
                    THEN [procs EXCEPT ![CHOOSE g \in free : TRUE] =
                            [pc |-> "regenerate", op |-> "generate_guides",
                             call |-> "get_tasks"]]
                    ELSE procs
        /\ UNCHANGED <<tasks, answers, cache, convs, now>>

-----------------------------------------------------------------------------
(* The repository called directly                                           *)

\* sync_user_tasks(user_id, required_task_codes) is called
SyncUserTasks(p, required_task_codes) ==
    /\ procs[p].pc = "idle"
    /\ procs' = [procs EXCEPT ![p] =
          [pc |-> "sync_start", op |-> "sync_user_tasks", call |-> "sync_user_tasks",
           required |-> required_task_codes]]
    /\ UNCHANGED <<tasks, profile, answers, cache, convs, now, resp>>

\* repo.update_task_status(user_id, task_code, status) is called: it takes
\* utc_now() (repo.py 241); its one round trip is UpdateRow
RepoUpdateTaskStatus(p, task_code, status) ==
    /\ procs[p].pc = "idle"
    /\ procs' = [procs EXCEPT ![p] =
          [pc |-> "update_row", op |-> "repo_update_task_status",
           call |-> "repo_update_task_status",
           task_code |-> task_code, status |-> status, update_now |-> now]]
    /\ UNCHANGED <<tasks, profile, answers, cache, convs, now, resp>>

-----------------------------------------------------------------------------
(* The round trips of each handler                                          *)

\* regenerate_tasks and sync_user_tasks
ResyncSteps(p) ==
    \/ RegenerateRead(p)
    \/ SyncStart(p)
    \/ SyncRead(p)
    \/ SyncExisting(p)
    \/ SyncCreate(p)

\* regenerate_tasks for a user whose rows are never rewritten
CreateSteps(p) ==
    \/ RegenerateRead(p)
    \/ SyncStart(p)
    \/ SyncRead(p)
    \/ SyncCreate(p)

StatusSteps(p) ==
    \/ StatusReadCache(p)
    \/ StatusReadAnswers(p)
    \/ StatusReadProfile(p)
    \/ StatusDiagnose(p)
    \/ StatusUpsert(p)
    \/ StatusReturn(p)

UpdateSteps(p) ==
    \/ UpdateRow(p)
    \/ CompleteProfile(p)
    \/ CompleteAnswer(p)
    \/ Invalidate(p)

\* save_answer while the onboarding is not completed
AnswerSteps(p) ==
    \/ AnswerUpsert(p)
    \/ AnswerReadProfile(p)
    \/ AnswerInsertProfile(p)
    \/ AnswerUpdateProfile(p)
    \/ OnboardingReadAnswers(p)
    \/ AnswerUpsertStatus(p)

\* get_status and save_answer once every question is answered
CompletionSteps(p) ==
    \/ OnboardingReadLatest(p)
    \/ OnboardingReadProfile(p)
    \/ CreateReadAnswers(p)
    \/ CreateReadProfile(p)
    \/ CreateReadDapCaf(p)
    \/ CreateUpsert(p)

\* _ensure_profile_exists
EnsureSteps(p) ==
    \/ EnsureReadProfile(p)
    \/ EnsureReadAnswers(p)
    \/ EnsureReadLatest(p)
    \/ EnsureInsert(p)

ChatSteps(p) ==
    \/ ChatFind(p)
    \/ ChatInsert(p)
    \/ ChatStore(p)

-----------------------------------------------------------------------------
(* One user whose client awaits each response before the next request      *)

\* The empty store, with the coroutines P
InitWith(P) ==
    /\ tasks = <<>>
    /\ profile = NoDoc
    /\ answers = <<>>
    /\ cache = NoDoc
    /\ convs = <<>>
    /\ now = 0
    /\ resp = [op |-> "init"]
    /\ procs = [p \in P |-> Idle]

Init == InitWith({"a"})

\* The onboarding answer that gives the user a producer profile
ProducerTypeAnswer == <<"producer_type", <<"I", "n", "d", "i", "v", "i", "d", "u", "a", "l">>, "str">>

\* A dap_caf_number of 51 characters: one more than the profile schema allows
LongNumber == [i \in 1..51 |-> "1"]

UpdateCodes ==
    {"HAS_FAMILY_FARMER_REGISTRATION", "HAS_BANK_ACCOUNT", "HAS_ADDRESS_PROOF", "HAS_CPF"}

UpdateInputs ==
    (UpdateCodes \X Statuses) \cup {<<"HAS_BANK_ACCOUNT", "archived">>}

Next ==
    \/ Tick
    \/ SaveAnswer("a", ProducerTypeAnswer[1], ProducerTypeAnswer[2], ProducerTypeAnswer[3])
    \/ AnswerSteps("a")
    \/ RegenerateTasks("a")
    \/ GetTasks("a")
    \/ GetOrCalculateStatus("a")
    \/ \E input \in UpdateInputs : UpdateTaskStatus("a", input[1], input[2])
    \/ ResyncSteps("a")
    \/ ListTasks("a")
    \/ StatusSteps("a")
    \/ UpdateSteps("a")
    \/ UpdateProfileField("a", "dap_caf_number", LongNumber)
    \/ ProfileFieldUpsert("a")

Spec == Init /\ [][Next]_vars

-----------------------------------------------------------------------------
(* Onboarding answers and task completions of one user, then the diagnosis *)

\* The answers submitted, each with its Python type: flags, a producer type,
\* an unknown question and a text answer to a boolean question.  Fewer
\* questions than the default set has, so the onboarding never completes and
\* save_answer never reaches _create_profile_from_answers.
SaveInputs ==
    ({"has_dap_caf", "has_address_proof"} \X BOOLEAN \X {"bool"})
    \cup {<<"has_previous_sales", TRUE, "bool">>,
          <<"has_bank_account", TRUE, "bool">>,
          <<"producer_type", <<"I", "n", "d", "i", "v", "i", "d", "u", "a", "l">>, "str">>,
          <<"unknown_question", TRUE, "bool">>,
          <<"has_cnpj", <<"s", "i", "m">>, "str">>}

OnboardingUpdateInputs ==
    {<<"HAS_FAMILY_FARMER_REGISTRATION", "done">>, <<"HAS_ADDRESS_PROOF", "done">>}

NextOnboarding ==
    \/ \E input \in SaveInputs : SaveAnswer("a", input[1], input[2], input[3])
    \/ AnswerSteps("a")
    \/ \E input \in OnboardingUpdateInputs : UpdateTaskStatus("a", input[1], input[2])
    \/ UpdateSteps("a")
    \/ GetOrCalculateStatus("a")
    \/ StatusSteps("a")
    \/ CreateSteps("a")

SpecOnboarding == Init /\ [][NextOnboarding]_vars

-----------------------------------------------------------------------------
(* Onboarding answers and status reads of one user while time passes       *)

ClockSaveInputs ==
    {<<"has_dap_caf", TRUE, "bool">>, <<"has_dap_caf", FALSE, "bool">>,
     <<"has_bank_account", TRUE, "bool">>, <<"producer_type", <<"I", "n", "d", "i", "v", "i", "d", "u", "a", "l">>, "str">>}

NextStatusClock ==
    \/ Tick
    \/ \E input \in ClockSaveInputs : SaveAnswer("a", input[1], input[2], input[3])
    \/ AnswerSteps("a")
    \/ GetOrCalculateStatus("a")
    \/ StatusSteps("a")
    \/ CreateSteps("a")

SpecStatusClock == Init /\ [][NextStatusClock]_vars

-----------------------------------------------------------------------------
(* The repository called directly: sync_user_tasks with any required list  *)

RepoCodes == {"HAS_BANK_ACCOUNT", "SALES_PROJECT_READY", "UNKNOWN_TASK"}

\* The required lists name no code twice, as those compute_required_tasks
\* builds (rules.py 42-69 appends each code at most once)
RequiredLists ==
    {required_task_codes \in UNION {[1..n -> RepoCodes] : n \in 0..MaxRequiredLen} :
        \A i, j \in DOMAIN required_task_codes :
            i # j => required_task_codes[i] # required_task_codes[j]}

NextRepo ==
    \/ Tick
    \/ \E required_task_codes \in RequiredLists : SyncUserTasks("a", required_task_codes)
    \/ SyncStart("a")
    \/ SyncRead("a")
    \/ SyncExisting("a")
    \/ SyncCreate("a")
    \/ \E task_code \in RepoCodes, status \in Statuses :
          RepoUpdateTaskStatus("a", task_code, status)
    \/ UpdateRow("a")

SpecRepo == Init /\ [][NextRepo]_vars

-----------------------------------------------------------------------------
(* PUT /producer-profile with its guide generation in the background,       *)
(* while the user goes on answering, completing tasks and reading           *)

ProfileSaveInputs ==
    {<<"has_dap_caf", FALSE, "bool">>}

ProfileUpdateInputs ==
    {<<"HAS_FAMILY_FARMER_REGISTRATION", "done">>, <<"HAS_BANK_ACCOUNT", "skipped">>}

\* One request coroutine and one guide generation
InitProfile == InitWith({"a", "g1"})

NextProfile ==
    \/ \E data \in ProfileInputs : UpsertProfile(data)
    \/ \E input \in ProfileSaveInputs : SaveAnswer("a", input[1], input[2], input[3])
    \/ AnswerSteps("a")
    \/ \E input \in ProfileUpdateInputs : UpdateTaskStatus("a", input[1], input[2])
    \/ UpdateSteps("a")
    \/ \E p \in {"a", "g1"} :
          \/ ResyncSteps(p)
          \/ ListTasks(p)
    \/ StatusSteps("g1")

SpecProfile == InitProfile /\ [][NextProfile]_vars

-----------------------------------------------------------------------------
(* PUT /producer-profile twice: two guide generations in flight at once     *)

InitGuides == InitWith(Background)

NextGuides ==
    \/ \E data \in ProfileInputs : UpsertProfile(data)
    \/ \E p \in Background :
          \/ CreateSteps(p)
          \/ ListTasks(p)
          \/ StatusSteps(p)

SpecGuides == InitGuides /\ [][NextGuides]_vars
-----------------------------------------------------------------------------
(* The last onboarding answers of one user: the onboarding completes        *)

\* The answers given so far, in the order of the questions: every default
\* question but has_previous_sales
AnsweredInputs ==
    <<<<"producer_type", <<"I", "n", "d", "i", "v", "i", "d", "u", "a", "l">>, "str">>,
      <<"name", <<"A", "n", "a">>, "str">>,
      <<"address", <<"R", "u", "a", " ", "1">>, "str">>,
      <<"city", <<"I", "t", "u">>, "str">>,
      <<"state", <<"s", "p">>, "str">>,
      <<"has_dap_caf", TRUE, "bool">>,
      <<"has_cnpj", FALSE, "bool">>,
      <<"has_address_proof", TRUE, "bool">>,
      <<"has_bank_account", TRUE, "bool">>,
      <<"production_type", <<"H", "o", "r", "t", "a", "l", "i", "ç", "a", "s">>, "str">>,
      <<"main_products", <<[str |-> <<"M", "i", "l", "h", "o">>]>>, "list">>,
      <<"production_capacity", <<"1", "0", " ", "k", "g">>, "str">>,
      <<"is_indigenous_or_traditional", FALSE, "bool">>>>

\* onboarding_answers after save_answer of inputs[1..n] at instant 0
RECURSIVE answers_after(_, _)
answers_after(inputs, n) ==
    IF n = 0 THEN <<>>
    ELSE SetFields(answers_after(inputs, n - 1),
                   inputs[n][1] :> answer_doc(inputs[n][2], inputs[n][3], 0))

\* The profile after save_answer of inputs[1..n], none of which completes
\* the onboarding: inserted by the first, updated by each
RECURSIVE profile_after(_, _)
profile_after(inputs, n) ==
    IF n = 0 THEN NoDoc
    ELSE LET existing == IF n = 1 THEN [user_id |-> "u1"] ELSE profile_after(inputs, n - 1)
             updated == SetFields(existing,
                           update_doc_from_answer(inputs[n][1], inputs[n][2], inputs[n][3]))
         IN  update_profile_status(updated,
                [status |-> onboarding_status({inputs[k][1] : k \in 1..n})])

InitCompletion ==
    /\ tasks = <<>>
    /\ profile = profile_after(AnsweredInputs, Len(AnsweredInputs))
    /\ answers = answers_after(AnsweredInputs, Len(AnsweredInputs))
    /\ cache = NoDoc
    /\ convs = <<>>
    /\ now = 0
    /\ resp = [op |-> "init"]
    /\ procs = [p \in {"a"} |-> Idle]

\* The last answer, and new answers to two questions: a state that is the
\* placeholder, a blank state, a state of letters that upper() lengthens, and
\* multi-select answers save_answer rejects
CompletionSaveInputs ==
    {<<"has_previous_sales", TRUE, "bool">>,
     <<"state", <<"x", "x">>, "str">>,
     <<"state", <<" ", "\t">>, "str">>,
     <<"state", <<"ß", "a">>, "str">>,
     <<"main_products", <<>>, "list">>,
     <<"main_products", <<[str |-> <<"M", "i", "l", "h", "o">>], [int |-> 1]>>, "list">>}

ProfileFieldInputs ==
    {<<"dap_caf_number", <<" ", "1", "2", "3", "\n">>>>, <<"dap_caf_number", LongNumber>>, <<"name", <<"A", "n", "a">>>>}

\* save_answer of a user who has a profile
LaterAnswerSteps(p) ==
    \/ AnswerUpsert(p)
    \/ AnswerReadProfile(p)
    \/ AnswerUpdateProfile(p)
    \/ OnboardingReadAnswers(p)
    \/ AnswerUpsertStatus(p)

NextCompletion ==
    \/ Tick
    \/ \E input \in CompletionSaveInputs : SaveAnswer("a", input[1], input[2], input[3])
    \/ LaterAnswerSteps("a")
    \/ CompletionSteps("a")
    \/ GetOnboardingStatus("a")
    \/ \E input \in ProfileFieldInputs : UpdateProfileField("a", input[1], input[2])
    \/ ProfileFieldUpsert("a")
    \/ GetOrCalculateStatus("a")
    \/ StatusSteps("a")
    \/ CreateSteps("a")

SpecCompletion == InitCompletion /\ [][NextCompletion]_vars

-----------------------------------------------------------------------------
(* GET /onboarding/status of a user whose answers are stored and whose      *)
(* profile is not: the user's first requests, one POST /onboarding/answer   *)
(* for each question, are in flight at once, each has upserted its answer   *)
(* (service.py 241-246) and none has looked for the profile yet             *)
(* (service.py 402).  "a" is one of these requests, the others stay where   *)
(* they are; "s" is the status request.                                     *)

EnsureInputs == Append(AnsweredInputs, <<"has_previous_sales", TRUE, "bool">>)

InitEnsure ==
    /\ tasks = <<>>
    /\ profile = NoDoc
    /\ answers = answers_after(EnsureInputs, Len(EnsureInputs))
    /\ cache = NoDoc
    /\ convs = <<>>
    /\ now \in 0..MaxTime
    /\ resp = [op |-> "init"]
    /\ procs = [p \in {"a", "s"} |->
                  IF p = "s" THEN Idle
                  ELSE [pc |-> "answer_profile", op |-> "save_answer",
                        question_id |-> "has_previous_sales", answer |-> TRUE,
                        answer_type |-> "bool"]]

\* save_answer once the answer is stored
StoredAnswerSteps(p) ==
    \/ AnswerReadProfile(p)
    \/ AnswerInsertProfile(p)
    \/ AnswerUpdateProfile(p)
    \/ OnboardingReadAnswers(p)
    \/ AnswerUpsertStatus(p)

NextEnsure ==
    \/ GetOnboardingStatus("s")
    \/ \E p \in {"a", "s"} :
          \/ StoredAnswerSteps(p)
          \/ CompletionSteps(p)
          \/ EnsureSteps(p)

SpecEnsure == InitEnsure /\ [][NextEnsure]_vars

-----------------------------------------------------------------------------
(* calculate_eligibility applied to every flag mapping                     *)

FlagKeys ==
    {"has_dap_caf", "has_cnpj", "has_bank_account", "has_address_proof",
     "has_previous_sales"}

\* Every mapping of some of the flags to booleans
FlagMappings == UNION {[K -> BOOLEAN] : K \in SUBSET FlagKeys}

ProducerTypeInputs ==
    {<<"i", "n", "d", "i", "v", "i", "d", "u", "a", "l">>, <<"i", "n", "f", "o", "r", "m", "a", "l">>, <<"f", "o", "r", "m", "a", "l">>, <<"F", "o", "r", "m", "a", "l">>, <<"G", "r", "u", "p", "o", " ", "F", "o", "r", "m", "a", "l", " ", "(", "C", "N", "P", "J", ")">>,
     <<" ", "F", "O", "R", "M", "A", "L", " ", "(", "c", "n", "p", "j", ")", "\n">>, <<"c", "o", "o", "p", "e", "r", "a", "t", "i", "v", "a">>, <<>>}

\* The mappings given to calculate_eligibility: with and without producer_type
ResponseInputs ==
    FlagMappings
    \cup {SetFields(m, "producer_type" :> producer_type) :
             m \in FlagMappings, producer_type \in ProducerTypeInputs}

InitDiagnosis ==
    /\ tasks = <<>>
    /\ profile = NoDoc
    /\ answers \in ResponseInputs
    /\ cache = NoDoc
    /\ convs = <<>>
    /\ now = 0
    /\ resp = [op |-> "init"]
    /\ procs = <<>>

\* calculate_eligibility(responses) on the mapping held in answers
CalculateEligibility ==
    /\ resp.op = "init"
    /\ resp' = SetFields(calculate_eligibility(answers), [op |-> "calculate_eligibility"])
    /\ UNCHANGED <<tasks, profile, answers, cache, convs, now, procs>>

NextDiagnosis == CalculateEligibility

SpecDiagnosis == InitDiagnosis /\ [][NextDiagnosis]_vars

-----------------------------------------------------------------------------
(* compute_required_tasks applied to every profile flag mapping            *)

ProfileFlagKeys ==
    {"has_cpf", "has_family_farmer_registration", "has_dap_caf", "has_bank_account",
     "has_address_proof", "wants_to_sell_to_school"}

\* Every mapping of some of the profile flags to booleans
ProfileFlagMappings == UNION {[K -> BOOLEAN] : K \in SUBSET ProfileFlagKeys}

InitRules ==
    /\ tasks = <<>>
    /\ profile \in ProfileFlagMappings
    /\ answers = <<>>
    /\ cache = NoDoc
    /\ convs = <<>>
    /\ now = 0
    /\ resp = [op |-> "init"]
    /\ procs = <<>>

\* compute_required_tasks(producer_profile) on the mapping held in profile
ComputeRequiredTasks ==
    /\ resp.op = "init"
    /\ resp' = [op |-> "compute_required_tasks",
                required |-> compute_required_tasks(profile)]
    /\ UNCHANGED <<tasks, profile, answers, cache, convs, now, procs>>

NextRules == ComputeRequiredTasks

SpecRules == InitRules /\ [][NextRules]_vars


-----------------------------------------------------------------------------
(* The chat assistant talking to one user                                   *)

ChatUpdateInputs ==
    {"HAS_FAMILY_FARMER_REGISTRATION", "HAS_BANK_ACCOUNT", "HAS_ADDRESS_PROOF"}
        \X {"done", "pending"}

\* The profile and the answers of a user who answered the producer type
\* question: the store after save_answer(producer_type, "Individual")
OnboardedProfile ==
    update_profile_status(
        SetFields([user_id |-> "u1"],
                  update_doc_from_answer("producer_type", <<"I", "n", "d", "i", "v", "i", "d", "u", "a", "l">>, "str")),
        [status |-> "in_progress"])

OnboardedAnswers == "producer_type" :> answer_doc(<<"I", "n", "d", "i", "v", "i", "d", "u", "a", "l">>, "str", 0)

\* The rows left by two first task-list requests that ran concurrently for
\* that user: each created every required code (a state of SpecRace)
RowsOfTwoFirstSyncs ==
    LET required == required_for_profile(get_profile_by_user(OnboardedProfile, users["u1"]))
    IN  [k \in 1..(2 * Len(required)) |->
            new_task_doc(required[((k - 1) % Len(required)) + 1], 0)]

\* A new user, or a user whose first two task-list requests raced
InitChat ==
    /\ \/ tasks = <<>> /\ profile = NoDoc /\ answers = <<>>
       \/ /\ tasks = RowsOfTwoFirstSyncs
          /\ profile = OnboardedProfile
          /\ answers = OnboardedAnswers
    /\ cache = NoDoc
    /\ convs = <<>>
    /\ now = 0
    /\ resp = [op |-> "init"]
    /\ procs = [p \in {"a"} |-> Idle]

NextChat ==
    \/ SaveAnswer("a", ProducerTypeAnswer[1], ProducerTypeAnswer[2], ProducerTypeAnswer[3])
    \/ AnswerSteps("a")
    \/ \E input \in ChatUpdateInputs : UpdateTaskStatus("a", input[1], input[2])
    \/ UpdateSteps("a")
    \/ \E conversation_id \in 0..MaxConversations, message \in ChatMessages :
          ChatMessage("a", "u1", conversation_id, message)
    \/ \E conversation_id \in 0..MaxConversations :
          GenerateResponse("a", "u1", conversation_id)
    \/ ChatSteps("a")
    \/ ResponseStore("a")
    \/ CreateSteps("a")
    \/ ListTasks("a")

SpecChat == InitChat /\ [][NextChat]_vars

\* A conversation starts in the initial state; walk lists the states left
InitStateMachine ==
    /\ tasks = <<>>
    /\ profile = NoDoc
    /\ answers = <<>>
    /\ cache = NoDoc
    /\ convs = <<>>
    /\ now = 0
    /\ resp = [op |-> "get_initial_state", state |-> get_initial_state, walk |-> <<>>]
    /\ procs = <<>>

\* can_transition_from(state, target_state); the state moves when it is allowed
CanTransitionFrom(target_state) ==
    LET allowed == can_transition_from(resp.state, target_state)
    IN  /\ Len(resp.walk) < MaxWalkLen
        /\ resp' = [op |-> "can_transition_from",
                    current_state |-> resp.state,
                    target_state |-> target_state,
                    allowed |-> allowed,
                    state |-> IF allowed THEN target_state ELSE resp.state,
                    walk |-> Append(resp.walk, resp.state)]
        /\ UNCHANGED <<tasks, profile, answers, cache, convs, now, procs>>

NextStateMachine == \E target_state \in ChatStates : CanTransitionFrom(target_state)

SpecStateMachine == InitStateMachine /\ [][NextStateMachine]_vars

-----------------------------------------------------------------------------
(* Two users talking to the assistant, one message at a time                *)

NextConversations ==
    \/ SaveAnswer("a", ProducerTypeAnswer[1], ProducerTypeAnswer[2], ProducerTypeAnswer[3])
    \/ AnswerSteps("a")
    \/ \E user_id \in {"u1", "u2"}, conversation_id \in 0..MaxConversations,
          message \in ChatMessages :
          ChatMessage("a", user_id, conversation_id, message)
    \/ \E user_id \in {"u1", "u2"}, conversation_id \in 0..MaxConversations :
          GenerateResponse("a", user_id, conversation_id)
    \/ ChatSteps("a")
    \/ ResponseStore("a")
    \/ CreateSteps("a")
    \/ ListTasks("a")

SpecConversations == Init /\ [][NextConversations]_vars

-----------------------------------------------------------------------------
(* Two requests of the same user in flight at once: the round trips of the  *)
(* two coroutines interleave.                                               *)

Procs == {"a", "b"}

RaceUpdateInputs == {<<"HAS_BANK_ACCOUNT", "done">>, <<"HAS_BANK_ACCOUNT", "skipped">>}

\* A user who answered the producer type question, no request in flight
InitRace ==
    /\ tasks = <<>>
    /\ profile = OnboardedProfile
    /\ answers = OnboardedAnswers
    /\ cache = NoDoc
    /\ convs = <<>>
    /\ now = 0
    /\ resp = [op |-> "init"]
    /\ procs = [p \in Procs |-> Idle]

NextRace ==
    \E p \in Procs :
       \/ GetTasks(p)
       \/ \E input \in RaceUpdateInputs : UpdateTaskStatus(p, input[1], input[2])
       \/ UpdateSteps(p)
       \/ ResyncSteps(p)
       \/ ListTasks(p)

SpecRace == InitRace /\ [][NextRace]_vars

-----------------------------------------------------------------------------
(* A status read in flight together with a task completion of the same user *)

StatusRaceUpdateInputs == {<<"HAS_BANK_ACCOUNT", "done">>}

NextStatusRace ==
    \E p \in Procs :
       \/ GetOrCalculateStatus(p)
       \/ StatusSteps(p)
       \/ \E input \in StatusRaceUpdateInputs : UpdateTaskStatus(p, input[1], input[2])
       \/ UpdateSteps(p)
       \/ CreateSteps(p)

SpecStatusRace == InitRace /\ [][NextStatusRace]_vars

-----------------------------------------------------------------------------
(* Properties                                                              *)

\* The call op has returned and no call is in flight
Returned(op) == resp.op = op /\ AllIdle

\* The coroutine p takes the step
Steps(p) == procs'[p] # procs[p]

\* The stored row a snapshot row of sync_user_tasks stands for
StoredRow(existing_task) == tasks[existing_task.id]

\* C1: under sync_user_tasks calls with arbitrary required sets, a row that is
\* done before a call is done after it, whether or not its code is required;
\* the call adds no other change to the row than a backfilled requirement_id
\* (with the updated_at of that write), and removes no row.
DoneStickyUnderResync ==
    Returned("sync_user_tasks") =>
        /\ Len(tasks) >= Len(resp.existing_tasks)
        /\ \A k \in DOMAIN resp.existing_tasks :
              LET before == resp.existing_tasks[k]
                  after == StoredRow(before)
              IN  before.status = "done" =>
                     /\ after.status = "done"
                     /\ \A f \in (DOMAIN after) \ {"requirement_id", "updated_at"} :
                           after[f] = before[f]
                     /\ (after.requirement_id # before.requirement_id
                            => before.requirement_id = NoneVal)
                     /\ (after.updated_at # before.updated_at
                            => after.requirement_id # before.requirement_id)

\* A sync has just returned and left done a row whose code it did not require
DoneRowOutsideRequiredSet ==
    /\ Returned("sync_user_tasks")
    /\ \E k \in DOMAIN resp.existing_tasks :
          /\ resp.existing_tasks[k].status = "done"
          /\ resp.existing_tasks[k].task_code \notin Range(resp.required)
          /\ StoredRow(resp.existing_tasks[k]).status = "done"

SyncPcs == {"sync_existing", "sync_create"}

\* C2: a write of a resync running concurrently with update_task_status never
\* takes a row out of status done.
DoneSurvivesConcurrentResync ==
    [][\A p \in DOMAIN procs :
          (procs[p].pc \in SyncPcs /\ Steps(p)) =>
             \A i \in DOMAIN tasks :
                tasks[i].status = "done" => tasks'[i].status = "done"]_vars

\* C3: at most one user-task row per task code of the user, concurrent
\* synchronizations included.
OneRowPerTaskCode ==
    \A i, j \in DOMAIN tasks : tasks[i].task_code = tasks[j].task_code => i = j

\* C4: a sync_user_tasks call that directly follows a call with the same
\* required list inserts no row and modifies no stored field of any row: no
\* round trip of the second call changes the rows.
SecondSyncChangesNothing ==
    [][\A p \in DOMAIN procs :
          (/\ resp.op = "sync_user_tasks"
           /\ procs[p].pc # "idle"
           /\ procs[p].op = "sync_user_tasks"
           /\ procs[p].required = resp.required) => tasks' = tasks]_vars

\* Python's round(n / d) for integers n >= 0, d > 0: to nearest, ties to even
round_ratio(n, d) ==
    LET q == n \div d
        r == n % d
    IN  IF 2 * r < d THEN q
        ELSE IF 2 * r > d THEN q + 1
        ELSE IF q % 2 = 0 THEN q ELSE q + 1

\* C5: the score get_or_calculate_status returns is round(100 * completed / total)
\* over the user's task rows, 0 without rows, and lies in [0,100].
ProgressScoreIsRounded ==
    Returned("get_or_calculate_status") =>
        LET total == Len(tasks)
            completed == Cardinality({i \in DOMAIN tasks : tasks[i].status = "done"})
        IN  /\ resp.score = (IF total = 0 THEN 0 ELSE round_ratio(100 * completed, total))
            /\ resp.score \in 0..100

\* The conversation a chat response belongs to: the one the handler used, the
\* one the request named when the handler returned before looking for it
ResponseConversation == Get(resp, "conversation_id", resp.requested_id)

\* The request named a conversation of the user that existed
OnExistingConversation ==
    IF "existing" \in DOMAIN resp THEN resp.existing
    ELSE /\ resp.requested_id \in DOMAIN convs
         /\ convs[resp.requested_id].user_id = resp.user_id

\* C6: after a message handled on an existing conversation, the chat_state and
\* current_task_code stored on it equal the conversation_state of the response
\* (an absent stored field counts as its default: idle, no task).
StoredChatStateFollowsResponse ==
    (Returned("chat") /\ OnExistingConversation) =>
        /\ Get(convs[ResponseConversation], "chat_state", "idle") = resp.chat_state
        /\ Get(convs[ResponseConversation], "current_task_code", NoneVal)
              = resp.current_task_code

\* C7: every mark_task_done action of a chat response names a task of the user
\* whose status is pending when the response is produced.
MarkTaskDoneOnlyForPending ==
    Returned("chat") =>
        \A k \in DOMAIN resp.suggested_actions :
           resp.suggested_actions[k].type = "mark_task_done" =>
              \E i \in DOMAIN tasks :
                 /\ tasks[i].task_code = resp.suggested_actions[k].task_code
                 /\ tasks[i].status = "pending"

DiagnosisCodes ==
    {"HAS_FAMILY_FARMER_REGISTRATION", "HAS_BANK_ACCOUNT", "HAS_ADDRESS_PROOF"}

requirement_of ==
    [HAS_FAMILY_FARMER_REGISTRATION |-> "DAP ou CAF",
     HAS_BANK_ACCOUNT |-> "Conta bancária",
     HAS_ADDRESS_PROOF |-> "Comprovante de endereço"]

\* The last completed call was update_task_status(code, "done") on an existing row
CompletedTask(r) ==
    /\ r.op = "update_task_status"
    /\ r.status = "done"
    /\ r.found
    /\ r.task_code \in DiagnosisCodes

\* C8: after update_task_status(code, "done") on an existing row the mapped
\* profile flags and the mirrored answer are true, and the next
\* get_or_calculate_status does not list the requirement as missing and
\* returns a diagnosed_at computed in that call.
CompletionReachesDiagnosis ==
    /\ []((CompletedTask(resp) /\ AllIdle) =>
            /\ \A f \in DOMAIN task_mapping[resp.task_code].profile_flags :
                  Get(profile, f, FALSE) = TRUE
            /\ task_mapping[resp.task_code].question_id \in DOMAIN answers
            /\ answers[task_mapping[resp.task_code].question_id].answer = TRUE)
    /\ [][(CompletedTask(resp) /\ resp'.op = "get_or_calculate_status") =>
            /\ requirement_of[resp.task_code] \notin Range(resp'.requirements_missing)
            /\ resp'.diagnosed_at = resp'.now
            /\ cache' # NoDoc
            /\ cache'.diagnosed_at = resp'.now]_vars

\* A status read at a later instant, with the bank-account task completed:
\* the row is done, the flag is set and the diagnosis is dated in the read
StatusReadAfterCompletion ==
    /\ Returned("get_or_calculate_status")
    /\ resp.now > 0
    /\ resp.diagnosed_at = resp.now
    /\ "Conta bancária" \in Range(resp.requirements_met)
    /\ \E i \in DOMAIN tasks :
          tasks[i].task_code = "HAS_BANK_ACCOUNT" /\ tasks[i].status = "done"

\* C9: after update_task_status returns for a valid status, with or without a
\* row for the code, no cached status document exists, and the next
\* get_or_calculate_status stores a freshly computed one.
StatusUpdateInvalidatesCache ==
    /\ []((Returned("update_task_status") /\ resp.status \in Statuses) => cache = NoDoc)
    /\ [][(resp.op = "update_task_status" /\ resp.status \in Statuses
             /\ resp'.op = "get_or_calculate_status") =>
            cache' = status_doc(calculate_eligibility(build_responses(answer_values(answers), profile)),
                                resp'.now)]_vars

\* An update for a code the user has no row for has returned, cache empty
UpdateWithoutRowInvalidated ==
    /\ Returned("update_task_status")
    /\ resp.status \in Statuses
    /\ ~resp.found
    /\ profile # NoDoc
    /\ tasks # <<>>
    /\ cache = NoDoc

\* The stored profile flags that stand for a task code (rules.py 38-55)
flag_is_true(profile_doc, task_code) ==
    IF task_code = "HAS_FAMILY_FARMER_REGISTRATION"
    THEN Get(profile_doc, "has_family_farmer_registration", FALSE) = TRUE
         \/ Get(profile_doc, "has_dap_caf", FALSE) = TRUE
    ELSE IF task_code = "HAS_BANK_ACCOUNT"
    THEN Get(profile_doc, "has_bank_account", FALSE) = TRUE
    ELSE Get(profile_doc, "has_address_proof", FALSE) = TRUE

\* C10: when the stored profile has the flag of a task code set to true, the
\* required set regenerate_tasks passes to sync_user_tasks does not contain
\* the code, and after regenerate_tasks no row for the code is pending.
TrueFlagRemovesTask ==
    (Returned("regenerate_tasks") /\ resp.synced) =>
        \A task_code \in DiagnosisCodes :
           flag_is_true(profile, task_code) =>
              /\ task_code \notin Range(resp.required)
              /\ \A i \in DOMAIN tasks :
                    tasks[i].task_code = task_code => tasks[i].status # "pending"

\* C11: after sync_user_tasks(user, R) every row that existed before the call
\* still exists, and every such row that was not done is pending when its code
\* is in R and skipped when it is not.
SyncPostState ==
    Returned("sync_user_tasks") =>
        /\ Len(tasks) >= Len(resp.existing_tasks)
        /\ \A k \in DOMAIN resp.existing_tasks :
              LET before == resp.existing_tasks[k]
                  after == StoredRow(before)
              IN  /\ after.task_code = before.task_code
                  /\ after.created_at = before.created_at
                  /\ (before.status # "done" =>
                        after.status = (IF before.task_code \in Range(resp.required)
                                        THEN "pending" ELSE "skipped"))

\* A sync has returned with one older skipped row pending again by a write
\* dated in the call (its code required) and another row skipped (its code
\* not required)
SyncReactivatedAndSkipped ==
    /\ Returned("sync_user_tasks")
    /\ \E i, j \in DOMAIN resp.existing_tasks :
          LET reactivated == resp.existing_tasks[i]
              skipped == resp.existing_tasks[j]
          IN  /\ reactivated.status = "skipped"
              /\ reactivated.task_code \in Range(resp.required)
              /\ StoredRow(reactivated).status = "pending"
              /\ StoredRow(reactivated).updated_at = resp.sync_now
              /\ reactivated.created_at < resp.sync_now
              /\ StoredRow(skipped).status = "skipped"
              /\ skipped.task_code \notin Range(resp.required)

RowsOf(rows, task_code) == {i \in DOMAIN rows : rows[i].task_code = task_code}

\* C12: a sync_user_tasks call whose required list contains codes absent from
\* the catalog completes, creates no row for them, and creates exactly one
\* row, pending and with the catalog's blocking flag, for every required
\* catalog code that had no row.
SyncTotalOnUnknownCodes ==
    (Returned("sync_user_tasks") /\ Range(resp.required) \ DOMAIN Catalog # {}) =>
        /\ \A i \in DOMAIN tasks : tasks[i].task_code \in DOMAIN Catalog
        /\ \A task_code \in Range(resp.required) \cap DOMAIN Catalog :
              RowsOf(resp.existing_tasks, task_code) = {} =>
                 /\ Cardinality(RowsOf(tasks, task_code)) = 1
                 /\ \A i \in RowsOf(tasks, task_code) :
                       /\ tasks[i].status = "pending"
                       /\ tasks[i].blocking = Catalog[task_code]

\* A sync has returned whose required list names a code absent from the
\* catalog before a catalog code that had no row: the row of the catalog
\* code was created in the call, and there is no row for the unknown code
UnknownCodeSkippedRowCreated ==
    /\ Returned("sync_user_tasks")
    /\ resp.required = <<"UNKNOWN_TASK", "HAS_BANK_ACCOUNT">>
    /\ RowsOf(resp.existing_tasks, "HAS_BANK_ACCOUNT") = {}
    /\ \E i \in RowsOf(tasks, "HAS_BANK_ACCOUNT") :
          /\ tasks[i].status = "pending"
          /\ tasks[i].created_at = resp.sync_now
    /\ RowsOf(tasks, "UNKNOWN_TASK") = {}

\* 1 for a true flag of the mapping, 0 for a false or absent one
Flag(m, key) == IF Get(m, key, FALSE) THEN 1 ELSE 0

\* The producer_type of the mapping is one of the formal types
Formal(m) == is_formal_producer(Get(m, "producer_type", <<>>))

\* C13: for every flag mapping the score of calculate_eligibility is
\* min(100, 30 + 30*dap_caf + 20*(not formal, or formal with cnpj) + 10*bank
\* + 10*address + 5*previous_sales), within [0,100]; an individual without
\* any flag scores 50, a formal producer with DAP/CAF, CNPJ, bank account and
\* address proof scores 100.
EligibilityScoreFormula ==
    resp.op = "calculate_eligibility" =>
        LET raw == 30 + 30 * Flag(answers, "has_dap_caf")
                   + 20 * (IF ~Formal(answers) \/ Flag(answers, "has_cnpj") = 1
                           THEN 1 ELSE 0)
                   + 10 * Flag(answers, "has_bank_account")
                   + 10 * Flag(answers, "has_address_proof")
                   + 5 * Flag(answers, "has_previous_sales")
        IN  /\ resp.score = (IF raw > 100 THEN 100 ELSE raw)
            /\ resp.score \in 0..100
            /\ (answers = [has_dap_caf |-> FALSE, producer_type |-> <<"i", "n", "d", "i", "v", "i", "d", "u", "a", "l">>]
                   => resp.score = 50)
            /\ (answers = [has_dap_caf |-> TRUE, has_cnpj |-> TRUE,
                           has_bank_account |-> TRUE, has_address_proof |-> TRUE,
                           producer_type |-> <<"f", "o", "r", "m", "a", "l">>]
                   => resp.score = 100)

\* The diagnosis of a formal producer with every flag true: 105 points capped
ScoreCappedAtHundred ==
    /\ resp.op = "calculate_eligibility"
    /\ Formal(answers)
    /\ \A key \in FlagKeys : Flag(answers, key) = 1
    /\ resp.score = 100

EssentialOk(m) == Flag(m, "has_dap_caf") = 1 /\ (~Formal(m) \/ Flag(m, "has_cnpj") = 1)

\* C14: with essential_ok = has_dap_caf and (not formal or has_cnpj), the level
\* is eligible iff essential_ok and score >= 70, partially_eligible iff
\* essential_ok and 50 <= score < 70, not_eligible otherwise; is_eligible is
\* true iff the level is eligible.
EligibilityTierRule ==
    resp.op = "calculate_eligibility" =>
        /\ resp.eligibility_level \in {"eligible", "partially_eligible", "not_eligible"}
        /\ (resp.eligibility_level = "eligible"
               <=> (EssentialOk(answers) /\ resp.score >= 70))
        /\ (resp.eligibility_level = "partially_eligible"
               <=> (EssentialOk(answers) /\ resp.score >= 50 /\ resp.score < 70))
        /\ (resp.eligibility_level = "not_eligible"
               <=> ~(EssentialOk(answers) /\ resp.score >= 50))
        /\ (resp.is_eligible <=> resp.eligibility_level = "eligible")

\* A formal producer without CNPJ scoring at least 70 is diagnosed not eligible
HighScoreWithoutEssentials ==
    /\ resp.op = "calculate_eligibility"
    /\ ~EssentialOk(answers)
    /\ resp.score >= 70
    /\ resp.eligibility_level = "not_eligible"
    /\ ~resp.is_eligible

\* C15: when producer_type is not formal (individual, informal, another string
\* or absent), whatever has_cnpj, no CNPJ requirement is listed as missing or
\* met and the 20 CNPJ points are awarded (the total capped at 100).
CnpjOnlyForFormal ==
    (resp.op = "calculate_eligibility" /\ ~Formal(answers)) =>
        /\ "CNPJ (para grupo formal)" \notin Range(resp.requirements_missing)
        /\ "CNPJ (para grupo formal)" \notin Range(resp.requirements_met)
        /\ LET raw == 30 + 20 + 30 * Flag(answers, "has_dap_caf")
                       + 10 * Flag(answers, "has_bank_account")
                       + 10 * Flag(answers, "has_address_proof")
                       + 5 * Flag(answers, "has_previous_sales")
           IN  resp.score = (IF raw > 100 THEN 100 ELSE raw)

\* An informal producer whose has_cnpj is false has been diagnosed
InformalWithoutCnpjDiagnosed ==
    /\ resp.op = "calculate_eligibility"
    /\ Get(answers, "producer_type", <<>>) = <<"i", "n", "f", "o", "r", "m", "a", "l">>
    /\ "has_cnpj" \in DOMAIN answers
    /\ ~answers["has_cnpj"]
    /\ resp.score >= 50

\* The position of each code in the list the rules build
RuleOrder ==
    [HAS_CPF |-> 1, HAS_FAMILY_FARMER_REGISTRATION |-> 2, HAS_BANK_ACCOUNT |-> 3,
     HAS_ADDRESS_PROOF |-> 4, SALES_PROJECT_READY |-> 5,
     PUBLIC_CALL_SUBMISSION_READY |-> 6]

\* The family-farmer registration flag of the mapping m:
\* has_family_farmer_registration, or has_dap_caf when that key is absent
\* (the comment of rules.py 38: "fallback se has_family_farmer_registration
\* não existir")
RegistrationFlag(m) ==
    IF "has_family_farmer_registration" \in DOMAIN m
    THEN m["has_family_farmer_registration"]
    ELSE Get(m, "has_dap_caf", FALSE)

\* Whether the rules of the claim require the code for the flag mapping m: an
\* absent flag has its default (has_cpf true, the others false)
RuleRequires(m, task_code) ==
    IF task_code = "HAS_CPF" THEN ~Get(m, "has_cpf", TRUE)
    ELSE IF task_code = "HAS_FAMILY_FARMER_REGISTRATION" THEN ~RegistrationFlag(m)
    ELSE IF task_code = "HAS_BANK_ACCOUNT" THEN ~Get(m, "has_bank_account", FALSE)
    ELSE IF task_code = "HAS_ADDRESS_PROOF" THEN ~Get(m, "has_address_proof", FALSE)
    ELSE Get(m, "wants_to_sell_to_school", FALSE)

\* C16: for every profile flag mapping compute_required_tasks returns, in rule
\* order and without duplicates, exactly the codes whose rule applies
\* (HAS_FAMILY_FARMER_REGISTRATION iff the family-farmer registration flag is
\* false); the list is empty when the four flags are true and
\* wants_to_sell_to_school is false.
RequiredTaskRules ==
    resp.op = "compute_required_tasks" =>
        /\ Range(resp.required) \subseteq DOMAIN RuleOrder
        /\ \A task_code \in DOMAIN RuleOrder :
              task_code \in Range(resp.required) <=> RuleRequires(profile, task_code)
        /\ \A i, j \in DOMAIN resp.required :
              i < j => RuleOrder[resp.required[i]] < RuleOrder[resp.required[j]]
        /\ ((/\ Get(profile, "has_cpf", FALSE)
             /\ Get(profile, "has_family_farmer_registration", FALSE)
             /\ Get(profile, "has_bank_account", FALSE)
             /\ Get(profile, "has_address_proof", FALSE)
             /\ ~Get(profile, "wants_to_sell_to_school", FALSE))
               => resp.required = <<>>)

\* The transition table of the claim, as pairs <<from, to>>
AllowedPairs ==
    {<<"idle", "explaining_task">>, <<"idle", "error">>,
     <<"explaining_task", "waiting_confirmation">>, <<"explaining_task", "task_completed">>,
     <<"explaining_task", "idle">>, <<"explaining_task", "error">>,
     <<"waiting_confirmation", "task_completed">>,
     <<"waiting_confirmation", "explaining_task">>,
     <<"waiting_confirmation", "idle">>, <<"waiting_confirmation", "error">>,
     <<"task_completed", "idle">>, <<"task_completed", "explaining_task">>,
     <<"task_completed", "error">>,
     <<"error", "idle">>, <<"error", "explaining_task">>}

\* C17: can_transition_from(s, t) is true exactly for the pairs of the table;
\* idle -> task_completed, error -> waiting_confirmation and every
\* self-transition are rejected; the initial state is idle.
ChatTransitionTable ==
    /\ (resp.op = "get_initial_state" => resp.state = "idle")
    /\ (resp.op = "can_transition_from" =>
          /\ (resp.allowed <=> <<resp.current_state, resp.target_state>> \in AllowedPairs)
          /\ (resp.current_state = resp.target_state => ~resp.allowed)
          /\ (<<resp.current_state, resp.target_state>>
                 \in {<<"idle", "task_completed">>, <<"error", "waiting_confirmation">>}
                 => ~resp.allowed))

\* The check rejected error -> waiting_confirmation after two moves
ErrorToWaitingRejected ==
    /\ resp.op = "can_transition_from"
    /\ resp.current_state = "error"
    /\ resp.target_state = "waiting_confirmation"
    /\ ~resp.allowed
    /\ resp.state = "error"

PendingRows == {i \in DOMAIN tasks : tasks[i].status = "pending"}

PendingBlockingRows == {i \in PendingRows : tasks[i].blocking}

\* The code of the first pending blocking row, of the first pending row when
\* no pending row is blocking
TopPendingCode ==
    IF PendingBlockingRows # {} THEN tasks[first_in(PendingBlockingRows)].task_code
    ELSE tasks[first_in(PendingRows)].task_code

\* 'o que falta' was asked and answered
AskedWhatIsMissing ==
    /\ Returned("chat")
    /\ resp.message_type # "error"
    /\ resp.intent = "ask_what_missing"

\* C18: a message classified ask_what_missing, for a user with a pending task,
\* is answered with chat_state explaining_task, the first pending blocking
\* task (the first pending task when none is blocking) as current_task_code
\* and exactly one suggested action, mark_task_done for that code; the same
\* state and code are stored on the conversation.
AskWhatMissingExplainsTopTask ==
    (AskedWhatIsMissing /\ PendingRows # {}) =>
        /\ resp.chat_state = "explaining_task"
        /\ resp.current_task_code = TopPendingCode
        /\ resp.suggested_actions = <<[type |-> "mark_task_done", task_code |-> TopPendingCode]>>
        /\ Get(convs[resp.conversation_id], "chat_state", "idle") = "explaining_task"
        /\ Get(convs[resp.conversation_id], "current_task_code", NoneVal) = TopPendingCode

\* 'o que falta' was answered while a non-blocking pending row came before the
\* first blocking pending row
BlockingTaskExplainedFirst ==
    /\ AskedWhatIsMissing
    /\ PendingBlockingRows # {}
    /\ first_in(PendingRows) < first_in(PendingBlockingRows)
    /\ resp.current_task_code = tasks[first_in(PendingBlockingRows)].task_code

OverrideFlags ==
    {"has_dap_caf", "has_cnpj", "has_bank_account", "has_address_proof",
     "has_previous_sales"}

\* C19: in get_or_calculate_status, for each of the flags has_dap_caf,
\* has_cnpj, has_bank_account, has_address_proof and has_previous_sales that
\* has an onboarding answer, the value given to calculate_eligibility is the
\* profile's value when the profile document contains the flag, and the
\* answer's value when it does not. (The call leaves the profile and the
\* answers as it read them.)
ProfileOverridesAnswers ==
    Returned("get_or_calculate_status") =>
        \A f \in OverrideFlags \cap DOMAIN answers :
            resp.responses[f] = IF f \in DOMAIN profile THEN profile[f] ELSE answers[f].answer

\* A diagnosis computed while the profile and the answer disagree on the
\* address proof, and while an answer exists for a flag the profile lacks
ProfileAndAnswerDisagreeAtDiagnosis ==
    /\ Returned("get_or_calculate_status")
    /\ "has_address_proof" \in DOMAIN profile
    /\ "has_address_proof" \in DOMAIN answers
    /\ profile["has_address_proof"] # answers["has_address_proof"].answer
    /\ resp.responses["has_address_proof"] = profile["has_address_proof"]
    /\ "has_previous_sales" \in DOMAIN answers
    /\ "has_previous_sales" \notin DOMAIN profile
    /\ resp.responses["has_previous_sales"] = answers["has_previous_sales"].answer

\* C20: a message classified as general on a conversation with no active task
\* is answered with a task explanation (state EXPLAINING_TASK) if and only if
\* the user has a pending blocking task; otherwise it is answered as a general
\* question and the state is IDLE.
UnpromptedExplanationNeedsBlockingTask ==
    /\ Returned("chat")
    /\ resp.message_type # "error"
    /\ resp.intent = "general"
    /\ resp.active_task_code = NoneVal
    => /\ resp.chat_state = "explaining_task" <=> PendingBlockingRows # {}
       /\ PendingBlockingRows = {} => resp.chat_state = "idle"

\* C21: has_dap_caf is consulted only when has_family_farmer_registration is
\* absent from the mapping: when has_family_farmer_registration is present and
\* false, HAS_FAMILY_FARMER_REGISTRATION is in the result whatever the value
\* of has_dap_caf.
DapCafIsOnlyAFallback ==
    /\ resp.op = "compute_required_tasks"
    /\ "has_family_farmer_registration" \in DOMAIN profile
    /\ ~profile["has_family_farmer_registration"]
    => "HAS_FAMILY_FARMER_REGISTRATION" \in Range(resp.required)

DiagnosisFields ==
    {"is_eligible", "eligibility_level", "score", "requirements_met",
     "requirements_missing", "recommendations"}

\* The diagnosis computed from the answers and the profile as stored now
current_diagnosis == calculate_eligibility(build_responses(answer_values(answers), profile))

\* The cached status document holds the diagnosis d
CacheHolds(d) == \A f \in DiagnosisFields : cache[f] = d[f]

\* C22: when get_or_calculate_status runs concurrently with
\* update_task_status(user, code, "done"), then once both have completed the
\* cached status document is absent or holds the diagnosis computed from the
\* profile as it is after the update.
NoStaleCacheAfterConcurrentRead ==
    AllIdle => (cache = NoDoc \/ CacheHolds(current_diagnosis))

\* C23: after every get_or_calculate_status call returns, the cached status
\* document has is_eligible, eligibility_level, score, requirements_met,
\* requirements_missing and recommendations equal to those of the diagnosis
\* computed in that call.
CachedDiagnosisIsCurrent ==
    Returned("get_or_calculate_status") =>
        /\ cache # NoDoc
        /\ CacheHolds(calculate_eligibility(resp.responses))

\* C24: in every state reached through complete operations (save_answer,
\* profile upsert with its guide generation, update_task_status, get_tasks,
\* get_or_calculate_status), a task with code HAS_CPF,
\* HAS_FAMILY_FARMER_REGISTRATION, HAS_BANK_ACCOUNT or HAS_ADDRESS_PROOF that
\* has status done has its flags (has_cpf, has_family_farmer_registration and
\* has_dap_caf, has_bank_account, has_address_proof) true in the stored
\* producer profile.
DoneTaskImpliesTrueFlag ==
    AllIdle =>
        \A i \in DOMAIN tasks :
            (tasks[i].status = "done" /\ tasks[i].task_code \in DOMAIN task_mapping) =>
                \A f \in DOMAIN task_mapping[tasks[i].task_code].profile_flags :
                    Get(profile, f, FALSE)

ResyncOps == {"get_tasks", "regenerate_tasks", "get_or_calculate_status"}

\* C25: after update_task_status(user, code, s) returns for an existing task,
\* with no other change to the profile or the answers, the task still has
\* status s when the next get_tasks, regenerate_tasks or
\* get_or_calculate_status returns.
ExplicitStatusSurvivesResync ==
    [][(/\ resp.op = "update_task_status"
        /\ "found" \in DOMAIN resp
        /\ resp.found
        /\ resp'.op \in ResyncOps)
       => \A i \in DOMAIN tasks' :
             tasks'[i].task_code = resp.task_code => tasks'[i].status = resp.status]_vars

\* C26: for every flag mapping given to calculate_eligibility, essential_ok
\* (has_dap_caf and, for formal producers, has_cnpj) implies a score of at
\* least 80, the level is never partially_eligible, and is_eligible is true
\* exactly when essential_ok holds, whatever the bank account, the address
\* proof and the previous sales.
PartiallyEligibleUnreachable ==
    resp.op = "calculate_eligibility" =>
        /\ (EssentialOk(answers) => resp.score >= 80)
        /\ resp.eligibility_level # "partially_eligible"
        /\ (resp.is_eligible <=> EssentialOk(answers))

\* A producer with the essential documents and nothing else is diagnosed
\* eligible with 80 points
EssentialsAloneAreEligible ==
    /\ resp.op = "calculate_eligibility"
    /\ EssentialOk(answers)
    /\ Flag(answers, "has_bank_account") = 0
    /\ Flag(answers, "has_address_proof") = 0
    /\ Flag(answers, "has_previous_sales") = 0
    /\ resp.score = 80
    /\ resp.is_eligible

StoredChatState(c) == Get(convs[c], "chat_state", "idle")

StoredTaskCode(c) == Get(convs[c], "current_task_code", NoneVal)

\* C27: the chat_state stored on a conversation is only ever idle or
\* explaining_task (absent counts as idle), the chat_state declared in a
\* response is only ever idle, explaining_task or error, and a stored
\* current_task_code is set exactly when the stored state is explaining_task.
ReachableChatStates ==
    /\ \A c \in DOMAIN convs :
          /\ StoredChatState(c) \in {"idle", "explaining_task"}
          /\ (StoredTaskCode(c) # NoneVal <=> StoredChatState(c) = "explaining_task")
    /\ resp.op = "chat" => resp.chat_state \in {"idle", "explaining_task", "error"}

\* A confirmation was accepted on a conversation that was explaining a task:
\* the conversation is stored idle without task code
ConfirmationStoredAsIdle ==
    /\ Returned("chat")
    /\ resp.message_type = "action"
    /\ resp.active_task_code # NoneVal
    /\ "chat_state" \in DOMAIN convs[resp.conversation_id]
    /\ StoredChatState(resp.conversation_id) = "idle"
    /\ StoredTaskCode(resp.conversation_id) = NoneVal

\* The coroutine p handles a chat message
HandlesChat(p) == procs[p].pc # "idle" /\ procs[p].op = "chat"

\* C28: handling a chat message changes no user-task row of the user: no
\* round trip of generate_specialized_response changes a status or inserts a
\* row, whatever the message and the stored profile.
ChatOnlyReadsTaskList ==
    [][\A p \in DOMAIN procs : (HandlesChat(p) /\ Steps(p)) => tasks' = tasks]_vars

\* C29: after every get_or_calculate_status call returns, the diagnosed_at in
\* the response equals the diagnosed_at of the cached status document as
\* stored after the call, also when a cached document existed before the call
\* and the diagnosis had changed since it was written.
ReturnedDiagnosedAtMatchesCache ==
    Returned("get_or_calculate_status") =>
        /\ cache # NoDoc
        /\ resp.diagnosed_at = cache.diagnosed_at

\* The coroutine p handles a message of either chat route
HandlesMessage(p) ==
    procs[p].pc # "idle" /\ procs[p].op \in {"chat", "generate_response"}

\* C30: get_or_create_conversation(user, id) returns the conversation with
\* that id only if it belongs to that user, then without creating one; given
\* an id owned by another user, an unknown id or no id, it creates a new
\* conversation owned by the caller; and no round trip of a message handled
\* for one user changes the stored chat_state or current_task_code of a
\* conversation owned by another user.
ConversationIsolation ==
    [][\A p \in DOMAIN procs :
          (HandlesMessage(p) /\ Steps(p)) =>
             LET local == procs[p]
                 obtained == procs'[p]
                 owned == /\ local.requested_id \in DOMAIN convs
                          /\ convs[local.requested_id].user_id = local.user_id
             IN  /\ ("conversation_id" \notin DOMAIN local
                        /\ "conversation_id" \in DOMAIN obtained) =>
                       /\ obtained.existing <=> owned
                       /\ owned => /\ obtained.conversation_id = local.requested_id
                                   /\ Len(convs') = Len(convs)
                       /\ ~owned => /\ Len(convs') = Len(convs) + 1
                                    /\ obtained.conversation_id = Len(convs')
                       /\ convs'[obtained.conversation_id].user_id = local.user_id
                 /\ \A c \in DOMAIN convs :
                       convs[c].user_id # local.user_id => convs'[c] = convs[c]]_vars

\* The first user named a conversation of the second user and was given a new
\* conversation of their own, on which a task is being explained
ForeignConversationNotReturned ==
    /\ Returned("chat")
    /\ resp.message_type # "error"
    /\ resp.user_id = "u1"
    /\ resp.requested_id \in DOMAIN convs
    /\ convs[resp.requested_id].user_id = "u2"
    /\ ~resp.existing
    /\ resp.conversation_id # resp.requested_id
    /\ convs[resp.conversation_id].user_id = "u1"
    /\ StoredChatState(resp.conversation_id) = "explaining_task"

====
